---- MODULE Spec2Model ----
(***************************************************************************)
(* Model of the Quant-Dashboard tick pipeline:                             *)
(*   normalization.py  Tick.from_binance_msg                               *)
(*   resampling.py     Resampler (process_tick, _new_bar, _update_bar)     *)
(*   database.py       DatabaseHandler (insert_tick, insert_bar, get_bars) *)
(*   stream_manager.py StreamManager (_process_msg and the accessors)      *)
(*   ingestion.py      BinanceClient (start, stop)                         *)
(*                                                                         *)
(* Specifications: Spec (the pipeline, message by message), StoreSpec (the *)
(* same with a failing store), ResampleSpec (the same on trades in and out *)
(* of time order), ClientSpec (the client coroutine and the network),      *)
(* ConcSpec (the worker step by step beside a reader), MgrSpec             *)
(* (StreamManager() and start() called by several threads), ReadSpec (the  *)
(* accessors as whole calls, with restarts of the process), DbSpec (the    *)
(* DatabaseHandler called directly), NormSpec (the normalizer alone) and   *)
(* FeedSpec (the client with _process_msg as its callback).                *)
(*                                                                         *)
(* Bars are Python dicts, shared by reference between the Resampler's      *)
(* current_bars and the bar ring buffers, so the model keeps a heap of bar *)
(* objects and the containers hold object ids (indices into the heap).     *)
(*                                                                         *)
(* Time: a message carries epoch milliseconds.  The ISO-8601 text of a     *)
(* timestamp is modelled as the record [sec, micro] of the naive local     *)
(* datetime it denotes, for a deployment whose local time has no DST fold  *)
(* (fromtimestamp / timestamp then invert each other on whole seconds).    *)
(***************************************************************************)
EXTENDS Integers, Sequences, FiniteSets, TLC

VARIABLES
    \* ---- StreamManager / Resampler / DatabaseHandler state
    heap,           \* bar objects: Seq of dicts; an object id is its index
    current_bars,   \* Resampler.current_bars: [tf -> [symbol -> id, 0 = no key]]
    tick_buffer,    \* StreamManager.tick_buffer: [symbol -> Seq(Tick)]
    bar_buffer,     \* StreamManager.bar_buffer: [tf -> [symbol -> Seq(id)]]
    db_ticks,       \* table ticks: set of rows
    db_bars,        \* tables bars_<tf>: [tf -> set of rows]
    \* ---- the last _process_msg call
    lastMsg,        \* its message
    lastFault,      \* what the store did during it
    completed,      \* what process_tick returned in it: Seq of <<tf, id>>
    raised,         \* whether it raised to its caller
    nMsgs,          \* messages handled so far
    \* ---- history (not program state)
    applied,        \* per heap object: its timeframe and the ticks applied to it
    fed,            \* per symbol: the ticks given to process_tick, in order
    emitted,        \* per (tf, symbol): ids returned by process_tick, in order
    tickLog,        \* per symbol: every tick appended to tick_buffer, in order
    barLog,         \* per (tf, symbol): every id appended to bar_buffer, in order
    \* ---- BinanceClient.start, its connection and the network
    pc,             \* where the coroutine start() is
    running,        \* BinanceClient.running
    stopCalled,     \* stop() has been called (history)
    conn,           \* the websocket: "none", "open", "dead" (failed or closed by the peer)
    inbox,          \* messages the connection has received and recv has not returned
    arrived,        \* messages the network has sent so far; a message is its number
    delivered,      \* messages given to the callback, in order (history)
    active,         \* messages whose callback has started and not finished
    finished,       \* messages whose callback has finished, in order (history)
    cbRaised,       \* the callback awaited now has raised
    everFailed,     \* the except clause has run (history)
    \* ---- _process_msg step by step (worker thread) beside a reader thread
    wpc,            \* where _process_msg is: "idle" between messages
    wtf,            \* process_tick: index in the loop over timeframes
    wfield,         \* _update_bar: the assignment it is at (1..4)
    wi,             \* step 4: index in the loop over new_bars
    rpc,            \* where the reader's accessor call is: "idle" between calls
    rtf,            \* get_bars_df: timeframe argument
    rsym,           \* get_bars_df / get_latest_price: symbol argument
    snap,           \* get_bars_df: data = list(self.bar_buffer[timeframe][symbol])
    rdf,            \* get_bars_df: rows of the DataFrame built so far
    rseen,          \* get_latest_price: ticks appended when the buffer was tested (history)
    rprice,         \* get_latest_price: the value returned
    \* ---- StreamManager.__new__ / __init__ / start, called from several threads
    instance,       \* StreamManager._instance: 0 = None, else the object's number
    lock,           \* StreamManager._lock: 0 = free, else the caller holding it
    initialized,    \* _instance._initialized: "unset", "False", "True"
    created,        \* per attribute of the instance: how often __init__ created it (history)
    thread,         \* self.thread: 0 = None or not set, else a thread's number
    threads,        \* the Thread objects created by start(): "new" or "alive"
    cpc,            \* per caller: where it is in StreamManager() or start()
    cself,          \* per caller: the instance its last StreamManager() gave, 0 = none yet
    \* ---- the last accessor call of a consumer, whole calls
    areq,           \* the call: [op, tf, symbol]
    abars,          \* get_bars_df: the rows returned
    asrc,           \* get_bars_df: "buffer", "store" or "none" (where the rows came from)
    aprice,         \* get_latest_price: the value returned
    \* ---- direct calls of the DatabaseHandler
    dbLog,          \* the insert calls made so far, in order (history)
    dreq,           \* the last read call: [op, tf, symbol, limit]
    drows,          \* the rows it returned
    \* ---- direct calls of Tick.from_binance_msg
    nmsg,           \* the message of the last call
    nout            \* its outcome: [out, tick]

memVars  == <<heap, current_bars, tick_buffer, bar_buffer>>
dbVars   == <<db_ticks, db_bars>>
callVars == <<lastMsg, lastFault, completed, raised, nMsgs>>
histVars == <<applied, fed, emitted, tickLog, barLog>>
pipeVars == <<memVars, dbVars, callVars, histVars>>
clientVars == <<pc, running, stopCalled, conn, inbox, arrived, delivered, active,
                finished, cbRaised, everFailed>>
workerVars == <<wpc, wtf, wfield, wi>>
readerVars == <<rpc, rtf, rsym, snap, rdf, rseen, rprice>>
mgrVars  == <<instance, lock, initialized, created, thread, threads, cpc, cself>>
accVars  == <<areq, abars, asrc, aprice>>
dbcVars  == <<dbLog, dreq, drows>>
normVars == <<nmsg, nout>>
apiVars  == <<mgrVars, accVars, dbcVars, normVars>>
vars     == <<pipeVars, clientVars, workerVars, readerVars, apiVars>>

(***************************************************************************)
(* Bounds of the model.                                                    *)
(***************************************************************************)
MaxMsgs    == 4     \* messages handled in one behaviour
MaxArrivals == 3    \* messages the network sends in one behaviour
MaxConcMsgs == 3    \* messages handled in one behaviour of the step-by-step worker
MaxDbCalls == 3     \* insert calls made directly on the DatabaseHandler in one behaviour
MaxMgrMsgs == 2     \* messages handled while the StreamManager is constructed and started
MaxThreads == 3     \* Thread objects start() creates in one behaviour
\* Ring-buffer capacities, scaled down from 2000 / 3600 / 1440 / 288 so that
\* eviction happens within MaxMsgs messages.
TickBufLen == 2
Bar1sLen   == 2
Bar1mLen   == 2
Bar5mLen   == 1
\* The limit of the storage read of get_bars_df, scaled down from 200 so that
\* the store holds more bars of a symbol than the read returns.
DbReadLimit == 2

(***************************************************************************)
(* config.py, and the inputs the model draws from.                         *)
(***************************************************************************)
Symbols == {"btcusdt", "ethusdt"}          \* DEFAULT_SYMBOLS (two of the five)
\* Mutant of TFOrder: the loop runs from the longest timeframe to the shortest.
TFOrder_LongestFirst == <<"5m", "1m", "1s">>
TFOrder == <<"1s", "1m", "5m">>            \* the loop order of process_tick
TFSet   == {"1s", "1m", "5m"}

\* str.lower() on the symbols a message can carry.
Lower(s) ==
    CASE s = "BTCUSDT"  -> "btcusdt"
      [] s = "ETHUSDT"  -> "ethusdt"
      [] s = "DOGEUSDT" -> "dogeusdt"
      [] s = "BtcUsdt"  -> "btcusdt"
      [] OTHER          -> s

\* Trade times (epoch ms): same second, next second, next minute, next 5 minutes.
TradeTimes == {500, 1500, 60500, 300500}
\* (price, quantity) pairs of a trade.
PriceQty   == {<<1, 2>>, <<2, 1>>}

\* A value of a key of the JSON object of a message: the key is absent, or its
\* value is a JSON number, a JSON string that is the text of a number ("0.5",
\* as the exchange sends prices and quantities), another JSON string, or null.
Absent    == [k |-> "absent", n |-> 0, t |-> ""]
Num(n)    == [k |-> "number", n |-> n, t |-> ""]
NumStr(n) == [k |-> "numstr", n |-> n, t |-> ""]
Str(t)    == [k |-> "string", n |-> 0, t |-> t]
Null      == [k |-> "null",   n |-> 0, t |-> ""]

\* A message is a text.  Its shape is what json.loads makes of it: "object" (a
\* dict with the keys e, s, T, p, q or some of them), "array", "scalar" (a
\* number), or "garbage" (json.loads raises).
JsonMsg(shape, e, s, T, p, q) ==
    [shape |-> shape, e |-> e, s |-> s, T |-> T, p |-> p, q |-> q]
TradeMsg(s, t, pq) ==
    JsonMsg("object", Str("trade"), Str(s), Num(t), NumStr(pq[1]), NumStr(pq[2]))
\* The first symbol trades at every time and price; the second, which is there
\* to interleave with it, at two times and one price.
TickMsgs    == {TradeMsg("BTCUSDT", t, pq) : t \in TradeTimes, pq \in PriceQty}
                 \cup {TradeMsg("ETHUSDT", t, <<2, 1>>) : t \in {500, 60500}}
GarbageMsg  == JsonMsg("garbage", Absent, Absent, Absent, Absent, Absent)
UnknownMsg  == TradeMsg("DOGEUSDT", 500, <<1, 2>>)
Msgs        == TickMsgs \cup {GarbageMsg, UnknownMsg}

(***************************************************************************)
(* normalization.py                                                        *)
(***************************************************************************)
\* datetime.fromtimestamp(ts_ms / 1000.0).isoformat()
IsoOfMs(ms) == [sec |-> ms \div 1000, micro |-> (ms % 1000) * 1000]

\* The value Tick.from_binance_msg returns for a message that yields no Tick.
NoTick == [symbol |-> "", timestamp |-> IsoOfMs(0), price |-> 0, size |-> 0, none |-> TRUE]

\* float(x): a number or the text of a number converts; other text raises
\* ValueError, None raises TypeError.
FloatOf(f) ==
    CASE f.k \in {"number", "numstr"} -> "ok"
      [] f.k = "string"               -> "ValueError"
      [] OTHER                        -> "TypeError"

\* The body of the try of from_binance_msg, lines 22 to 40: "tick" when it
\* reaches the end of the Tick(...) call, "none" when it returns None at line
\* 30, and otherwise the exception it raises.
ParseBody(msg) ==
    CASE msg.shape = "garbage" -> "JSONDecodeError"           \* json.loads
      [] msg.shape = "scalar"  -> "TypeError"                 \* 'e' in data
      [] msg.shape = "array"   -> "none"                      \* neither 'e' nor 'T' in data
      [] OTHER ->
            IF msg.T.k = "absent"
            THEN IF msg.e = Str("aggTrade") THEN "KeyError" ELSE "none"
            ELSE IF msg.T.k /= "number" THEN "TypeError"      \* ts_ms / 1000.0
            ELSE IF msg.s.k = "absent" THEN "KeyError"        \* data['s']
            ELSE IF msg.s.k \notin {"string", "numstr"} THEN "AttributeError"   \* .lower()
            ELSE IF msg.p.k = "absent" THEN "KeyError"        \* data['p']
            ELSE IF FloatOf(msg.p) /= "ok" THEN FloatOf(msg.p)
            ELSE IF msg.q.k = "absent" THEN "KeyError"        \* data['q']
            ELSE IF FloatOf(msg.q) /= "ok" THEN FloatOf(msg.q)
            ELSE "tick"

\* Mutant of Catches: a missing key is not handled.
Catches_NotKeyError(exc) == exc /= "KeyError"

\* Mutant of Catches: the handler names the JSON error only.
Catches_OnlyJson(exc) == exc = "JSONDecodeError"

\* except Exception: every exception the body can raise is one.
Catches(exc) == TRUE

\* The Tick the call builds at lines 35 to 40.
TickOf(msg) ==
    [symbol |-> Lower(msg.s.t), timestamp |-> IsoOfMs(msg.T.n),
     price |-> msg.p.n, size |-> msg.q.n, none |-> FALSE]

\* Tick.from_binance_msg as its caller sees it: out is "tick" (a Tick is
\* returned), "none" (None is returned) or "raise" (an exception leaves it).
Normalize(msg) ==
    LET o == ParseBody(msg)
    IN  IF o = "tick" THEN [out |-> "tick", tick |-> TickOf(msg)]
        ELSE IF o = "none" \/ Catches(o) THEN [out |-> "none", tick |-> NoTick]
        ELSE [out |-> "raise", tick |-> NoTick]

\* The value Tick.from_binance_msg returns.
FromBinanceMsg(msg) == Normalize(msg).tick

(***************************************************************************)
(* resampling.py                                                           *)
(***************************************************************************)
\* Mutant of GetIntervalSeconds: the lengths of 1m and 5m are exchanged.
GetIntervalSeconds_Swapped(tf) ==
    IF tf = "1s" THEN 1 ELSE IF tf = "1m" THEN 300 ELSE IF tf = "5m" THEN 60 ELSE 60

\* _get_interval_seconds
GetIntervalSeconds(tf) ==
    IF tf = "1s" THEN 1 ELSE IF tf = "1m" THEN 60 ELSE IF tf = "5m" THEN 300 ELSE 60

\* _align_time on datetime.fromisoformat(tick.timestamp): replace(microsecond=0),
\* int(timestamp()), floor to the interval, and back to the ISO text of the
\* datetime (process_tick line 52).
AlignTime(iso, tf) ==
    LET total_seconds   == iso.sec
        floored_seconds == total_seconds - (total_seconds % GetIntervalSeconds(tf))
    IN  [sec |-> floored_seconds, micro |-> 0]

\* Mutant of NewBar: the bar is stamped with the time of the tick, not with the
\* boundary.
NewBar_AtTickTime(tick, timestamp) ==
    [symbol |-> tick.symbol, timestamp |-> tick.timestamp,
     open |-> tick.price, high |-> tick.price, low |-> tick.price,
     close |-> tick.price, volume |-> tick.size]

\* _new_bar
NewBar(tick, timestamp) ==
    [symbol |-> tick.symbol, timestamp |-> timestamp,
     open |-> tick.price, high |-> tick.price, low |-> tick.price,
     close |-> tick.price, volume |-> tick.size]

Max2(a, b) == IF a >= b THEN a ELSE b
Min2(a, b) == IF a <= b THEN a ELSE b

\* Mutant of UpdateBar: the close is left at its old value.
UpdateBar_KeepsClose(bar, tick) ==
    [bar EXCEPT !.high   = Max2(bar.high, tick.price),
                !.low    = Min2(bar.low, tick.price),
                !.volume = bar.volume + tick.size]

\* Mutant of UpdateBar: the low is not lowered.
UpdateBar_KeepsLow(bar, tick) ==
    [bar EXCEPT !.high   = Max2(bar.high, tick.price),
                !.close  = tick.price,
                !.volume = bar.volume + tick.size]

\* Mutant of UpdateBar: the volume is not added to.
UpdateBar_KeepsVolume(bar, tick) ==
    [bar EXCEPT !.high   = Max2(bar.high, tick.price),
                !.low    = Min2(bar.low, tick.price),
                !.close  = tick.price]

\* The k-th assignment of _update_bar.
UpdateBarField(bar, tick, k) ==
    CASE k = 1 -> [bar EXCEPT !.high   = Max2(bar.high, tick.price)]
      [] k = 2 -> [bar EXCEPT !.low    = Min2(bar.low, tick.price)]
      [] k = 3 -> [bar EXCEPT !.close  = tick.price]
      [] k = 4 -> [bar EXCEPT !.volume = bar.volume + tick.size]

\* _update_bar
UpdateBar(bar, tick) ==
    UpdateBarField(UpdateBarField(UpdateBarField(UpdateBarField(bar, tick, 1), tick, 2),
                                  tick, 3), tick, 4)

\* Mutant of RollBar: the open bar object is emitted and then reused in place
\* for the new interval, instead of the slot getting a new object.
RollBar_InPlace(R, tf, tick, aligned, id) ==
    [R EXCEPT !.heap[id]    = NewBar(tick, aligned),
              !.applied[id] = [tf |-> tf, ticks |-> <<tick>>],
              !.completed   = Append(R.completed, <<tf, id>>)]

\* What process_tick does when the tick's boundary differs from the open bar's:
\* the open bar object goes to the result and the slot gets a new object.
RollBar(R, tf, tick, aligned, id) ==
    [R EXCEPT !.heap      = Append(R.heap, NewBar(tick, aligned)),
              !.applied   = Append(R.applied, [tf |-> tf, ticks |-> <<tick>>]),
              !.cur[tf][tick.symbol] = Len(R.heap) + 1,
              !.completed = Append(R.completed, <<tf, id>>)]

\* Mutant of BoundaryDiffers: only a later boundary closes the open bar.
BoundaryDiffers_OnlyLater(aligned, current) ==
    current.sec < aligned.sec \/ (current.sec = aligned.sec /\ current.micro < aligned.micro)

\* process_tick, line 60:  aligned_ts_str != current_bar['timestamp']
BoundaryDiffers(aligned, current) == aligned /= current

\* One iteration of the loop of process_tick, for timeframe tf.
\* R = [heap, applied, cur, completed].
ProcessTickTf(R, tick, tf) ==
    LET aligned == AlignTime(tick.timestamp, tf)
        id      == R.cur[tf][tick.symbol]
    IN  IF id /= 0
        THEN IF BoundaryDiffers(aligned, R.heap[id].timestamp)
             THEN RollBar(R, tf, tick, aligned, id)
             ELSE [R EXCEPT !.heap[id] = UpdateBar(R.heap[id], tick),
                            !.applied[id].ticks = Append(@, tick)]
        ELSE [R EXCEPT !.heap    = Append(R.heap, NewBar(tick, aligned)),
                       !.applied = Append(R.applied, [tf |-> tf, ticks |-> <<tick>>]),
                       !.cur[tf][tick.symbol] = Len(R.heap) + 1]

\* process_tick: the three timeframes in loop order; completed starts empty.
ProcessTick(heap0, applied0, cur0, tick) ==
    LET R0 == [heap |-> heap0, applied |-> applied0, cur |-> cur0, completed |-> <<>>]
        R1 == ProcessTickTf(R0, tick, TFOrder[1])
        R2 == ProcessTickTf(R1, tick, TFOrder[2])
    IN  ProcessTickTf(R2, tick, TFOrder[3])

(***************************************************************************)
(* collections.deque(maxlen=n).append                                      *)
(***************************************************************************)
\* Mutant of DequeAppend: a plain list, nothing is evicted.
DequeAppend_Unbounded(d, x, maxlen) == Append(d, x)

DequeAppend(d, x, maxlen) ==
    IF Len(d) >= maxlen THEN Append(Tail(d), x) ELSE Append(d, x)

BarBufLen(tf) == IF tf = "1s" THEN Bar1sLen ELSE IF tf = "1m" THEN Bar1mLen ELSE Bar5mLen

(***************************************************************************)
(* database.py.  A store call either works ("ok"), or fails inside the     *)
(* try of the insert method ("exec": logged and swallowed), or fails       *)
(* opening the connection ("connect": sqlite3.connect raises in            *)
(* get_connection, before the try, and the exception leaves the method).   *)
(***************************************************************************)
StoreModes == {"ok", "exec", "connect"}
NoFault    == [tick |-> "ok", bar |-> "ok"]
Faults     == [tick : StoreModes, bar : StoreModes]

\* Mutant of InsertTick: INSERT OR REPLACE.
InsertTick_Replace(rows, tick) ==
    {r \in rows : ~(r.symbol = tick.symbol /\ r.timestamp = tick.timestamp)}
        \cup {[symbol |-> tick.symbol, timestamp |-> tick.timestamp,
                price |-> tick.price, size |-> tick.size]}

\* INSERT OR IGNORE INTO ticks, primary key (symbol, timestamp).
InsertTick(rows, tick) ==
    IF \E r \in rows : r.symbol = tick.symbol /\ r.timestamp = tick.timestamp
    THEN rows
    ELSE rows \cup {[symbol |-> tick.symbol, timestamp |-> tick.timestamp,
                     price |-> tick.price, size |-> tick.size]}

\* Mutant of InsertBar: INSERT OR IGNORE.
InsertBar_Ignore(rows, bar) ==
    IF \E r \in rows : r.symbol = bar.symbol /\ r.timestamp = bar.timestamp
    THEN rows
    ELSE rows \cup {bar}

\* INSERT OR REPLACE INTO bars_<tf>, primary key (symbol, timestamp).
InsertBar(rows, bar) ==
    {r \in rows : ~(r.symbol = bar.symbol /\ r.timestamp = bar.timestamp)} \cup {bar}

\* ORDER BY timestamp on the ISO text: the order of the instants.
IsoLess(a, b) == a.sec < b.sec \/ (a.sec = b.sec /\ a.micro < b.micro)

\* The rows of a set, newest first (ORDER BY timestamp DESC).
RECURSIVE NewestFirst(_)
NewestFirst(rows) ==
    IF rows = {}
    THEN <<>>
    ELSE LET top == CHOOSE r \in rows : \A o \in rows : ~IsoLess(r.timestamp, o.timestamp)
         IN  <<top>> \o NewestFirst(rows \ {top})

Reverse(seq) == [i \in 1..Len(seq) |-> seq[Len(seq) + 1 - i]]

\* Mutant of GetBars: the rows are returned in the order of the scan.
GetBars_NotReversed(rows, symbol, limit) ==
    LET desc == NewestFirst({r \in rows : r.symbol = symbol})
    IN  SubSeq(desc, 1, Min2(limit, Len(desc)))

\* get_bars: SELECT * ... WHERE symbol = ? ORDER BY timestamp DESC LIMIT ?, reversed.
GetBars(rows, symbol, limit) ==
    LET desc == NewestFirst({r \in rows : r.symbol = symbol})
    IN  Reverse(SubSeq(desc, 1, Min2(limit, Len(desc))))

\* get_recent_ticks: SELECT ... WHERE symbol = ? ORDER BY timestamp DESC LIMIT ?
GetRecentTicks(rows, symbol, limit) ==
    LET desc == NewestFirst({r \in rows : r.symbol = symbol})
    IN  SubSeq(desc, 1, Min2(limit, Len(desc)))


(***************************************************************************)
(* stream_manager.py: StreamManager._process_msg, as a function of the     *)
(* state S = [heap, applied, cur, tbuf, bbuf, dbt, dbb, fed, emitted,      *)
(* tlog, blog, completed, raised].                                         *)
(***************************************************************************)
IdsOf(pairs) == [i \in 1..Len(pairs) |-> pairs[i][2]]
CompletedOf(pairs, tf) == IdsOf(SelectSeq(pairs, LAMBDA c : c[1] = tf))

\* Step 4: for each completed bar, append it to its ring buffer, then persist it.
RECURSIVE HandleCompletedBars(_, _, _)
HandleCompletedBars(S, fault, i) ==
    IF i > Len(S.completed)
    THEN [S EXCEPT !.raised = FALSE]
    ELSE LET tf  == S.completed[i][1]
             id  == S.completed[i][2]
             bar == S.heap[id]
             S1  == [S EXCEPT !.bbuf[tf][bar.symbol] = DequeAppend(@, id, BarBufLen(tf)),
                              !.blog[tf][bar.symbol] = Append(@, id)]
         IN  IF fault.bar = "connect"
             THEN [S1 EXCEPT !.raised = TRUE]
             ELSE HandleCompletedBars(
                      [S1 EXCEPT !.dbb[tf] = IF fault.bar = "ok" THEN InsertBar(@, bar) ELSE @],
                      fault, i + 1)

\* Steps 2 to 4, after the tick went into the tick ring buffer.
PersistAndResample(S, tick, fault) ==
    IF fault.tick = "connect"
    THEN [S EXCEPT !.raised = TRUE]
    ELSE LET S2 == [S EXCEPT !.dbt = IF fault.tick = "ok" THEN InsertTick(@, tick) ELSE @]
             R  == ProcessTick(S2.heap, S2.applied, S2.cur, tick)
             S3 == [S2 EXCEPT !.heap = R.heap, !.applied = R.applied, !.cur = R.cur,
                              !.completed = R.completed,
                              !.fed[tick.symbol] = Append(@, tick),
                              !.emitted = [tf \in TFSet |->
                                  [@[tf] EXCEPT ![tick.symbol] = @ \o CompletedOf(R.completed, tf)]]]
         IN  HandleCompletedBars(S3, fault, 1)

ProcessMsg(S, msg, fault) ==
    LET tick == FromBinanceMsg(msg)
        S0   == [S EXCEPT !.completed = <<>>, !.raised = FALSE]
    IN  IF Normalize(msg).out = "raise"
        THEN [S0 EXCEPT !.raised = TRUE]       \* line 64 has no try around it
        ELSE IF tick.none
        THEN S0
        ELSE IF tick.symbol \notin Symbols
        THEN [S0 EXCEPT !.raised = TRUE]       \* KeyError: self.tick_buffer[tick.symbol]
        ELSE PersistAndResample(
                 [S0 EXCEPT !.tbuf[tick.symbol] = DequeAppend(@, tick, TickBufLen),
                            !.tlog[tick.symbol] = Append(@, tick)],
                 tick, fault)

State ==
    [heap |-> heap, applied |-> applied, cur |-> current_bars,
     tbuf |-> tick_buffer, bbuf |-> bar_buffer, dbt |-> db_ticks, dbb |-> db_bars,
     fed |-> fed, emitted |-> emitted, tlog |-> tickLog, blog |-> barLog,
     completed |-> completed, raised |-> raised]

\* The in-memory part of a state: ring buffers, open bars and bar objects.
MemOf(S) == <<S.heap, S.cur, S.tbuf, S.bbuf>>

(***************************************************************************)
(* Initial state: StreamManager.__init__, Resampler.__init__, _init_db on  *)
(* a new database file.                                                    *)
(***************************************************************************)
PipeInit ==
    /\ heap = <<>>
    /\ current_bars = [tf \in TFSet |-> [s \in Symbols |-> 0]]
    /\ tick_buffer = [s \in Symbols |-> <<>>]
    /\ bar_buffer = [tf \in TFSet |-> [s \in Symbols |-> <<>>]]
    /\ db_ticks = {}
    /\ db_bars = [tf \in TFSet |-> {}]
    /\ lastMsg = GarbageMsg
    /\ lastFault = NoFault
    /\ completed = <<>>
    /\ raised = FALSE
    /\ nMsgs = 0
    /\ applied = <<>>
    /\ fed = [s \in Symbols |-> <<>>]
    /\ emitted = [tf \in TFSet |-> [s \in Symbols |-> <<>>]]
    /\ tickLog = [s \in Symbols |-> <<>>]
    /\ barLog = [tf \in TFSet |-> [s \in Symbols |-> <<>>]]

\* BinanceClient.__init__, before start() runs.
ClientInit ==
    /\ pc = "init"
    /\ running = FALSE
    /\ stopCalled = FALSE
    /\ conn = "none"
    /\ inbox = <<>>
    /\ arrived = 0
    /\ delivered = <<>>
    /\ active = {}
    /\ finished = <<>>
    /\ cbRaised = FALSE
    /\ everFailed = FALSE

\* No message in progress, no accessor call in progress.
ThreadsInit ==
    /\ wpc = "idle"
    /\ wtf = 1
    /\ wfield = 1
    /\ wi = 1
    /\ rpc = "idle"
    /\ rtf = "1s"
    /\ rsym = "btcusdt"
    /\ snap = <<>>
    /\ rdf = <<>>
    /\ rseen = 0
    /\ rprice = 0

\* The threads that construct and start the StreamManager.
Callers == {1, 2}
\* The attributes __init__ creates that hold data or connections.
Attrs == {"db", "resampler", "tick_buffer", "bar_buffer", "client"}

\* The process has started and the class StreamManager is loaded (lines 15, 16).
ProcessStart ==
    /\ instance = 0
    /\ lock = 0
    /\ initialized = "unset"
    /\ created = [a \in Attrs |-> 0]
    /\ thread = 0
    /\ threads = <<>>
    /\ cpc = [c \in Callers |-> "idle"]
    /\ cself = [c \in Callers |-> 0]

\* One thread has run  sm = StreamManager(); sm.start()  to its end.
ManagerStarted ==
    /\ instance = 1
    /\ lock = 0
    /\ initialized = "True"
    /\ created = [a \in Attrs |-> 1]
    /\ thread = 1
    /\ threads = <<"alive">>
    /\ cpc = [c \in Callers |-> "idle"]
    /\ cself = [c \in Callers |-> IF c = 1 THEN 1 ELSE 0]

\* No accessor, store or normalizer call has been made by a consumer.
NoRequest == [op |-> "none", tf |-> "1s", symbol |-> "btcusdt", limit |-> 0]
CallsInit ==
    /\ areq = NoRequest
    /\ abars = <<>>
    /\ asrc = "none"
    /\ aprice = 0
    /\ dbLog = <<>>
    /\ dreq = NoRequest
    /\ drows = <<>>
    /\ nmsg = GarbageMsg
    /\ nout = [out |-> "none", tick |-> NoTick]

Init == PipeInit /\ ClientInit /\ ThreadsInit /\ ManagerStarted /\ CallsInit

\* What one call of _process_msg with message msg does to the StreamManager,
\* the Resampler and the store, the store behaving as fault says during it.
RunProcessMsg(msg, fault) ==
    /\ nMsgs < MaxMsgs
    /\ LET S == ProcessMsg(State, msg, fault)
       IN  /\ heap' = S.heap
           /\ applied' = S.applied
           /\ current_bars' = S.cur
           /\ tick_buffer' = S.tbuf
           /\ bar_buffer' = S.bbuf
           /\ db_ticks' = S.dbt
           /\ db_bars' = S.dbb
           /\ fed' = S.fed
           /\ emitted' = S.emitted
           /\ tickLog' = S.tlog
           /\ barLog' = S.blog
           /\ completed' = S.completed
           /\ raised' = S.raised
    /\ lastMsg' = msg
    /\ lastFault' = fault
    /\ nMsgs' = nMsgs + 1

\* One call of the callback (_process_msg), taken alone.
Callback(msg, fault) ==
    /\ RunProcessMsg(msg, fault)
    /\ UNCHANGED <<clientVars, workerVars, readerVars, apiVars>>

\* The pipeline with a store that works.
OnMessage == \E msg \in Msgs : Callback(msg, NoFault)

Next == OnMessage

\* The pipeline with a store that may fail in any one call: the tick insert or
\* the bar inserts of a message fail inside the try or at the connection.
StoreFaults ==
    {NoFault} \cup {[NoFault EXCEPT !.tick = m] : m \in {"exec", "connect"}}
              \cup {[NoFault EXCEPT !.bar = m] : m \in {"exec", "connect"}}
StoreMsgs ==
    {TradeMsg("BTCUSDT", t, <<1, 2>>) : t \in {500, 1500, 60500}}
        \cup {TradeMsg("ETHUSDT", 500, <<2, 1>>)}
OnMessageStoreFailing == \E msg \in StoreMsgs, fault \in StoreFaults : Callback(msg, fault)

StoreNext == OnMessageStoreFailing

StoreSpec == Init /\ [][StoreNext]_vars

\* The pipeline on trades of one symbol in and out of time order (two trades
\* in one second, and trades one second, one minute and five minutes later),
\* with a trade of the second symbol between them.
ResampleMsgs ==
    {TradeMsg("BTCUSDT", 500, <<1, 2>>), TradeMsg("BTCUSDT", 1500, <<1, 2>>),
     TradeMsg("BTCUSDT", 1500, <<2, 1>>), TradeMsg("BTCUSDT", 60500, <<1, 2>>),
     TradeMsg("BTCUSDT", 300500, <<2, 1>>), TradeMsg("ETHUSDT", 500, <<2, 1>>)}
OnMessageResample == \E msg \in ResampleMsgs : Callback(msg, NoFault)

ResampleNext == OnMessageResample

ResampleSpec == Init /\ [][ResampleNext]_vars

(***************************************************************************)
(* ingestion.py: BinanceClient.start as a coroutine, one action per await  *)
(* or loop test, with the network around it.  The callback is taken here   *)
(* by its outcome alone: it finishes, returning or raising.                *)
(*                                                                         *)
(*   init        start() not yet run                                       *)
(*   outer       at the test of the outer  while self.running              *)
(*   connecting  awaiting websockets.connect(url)                          *)
(*   inner       at the test of the inner  while self.running              *)
(*   recv        awaiting ws.recv()                                        *)
(*   callback    awaiting self.callback(msg)                               *)
(*   except      in the except clause, before the sleep                    *)
(*   backoff     awaiting asyncio.sleep(5)                                 *)
(*   returned    start() has returned                                      *)
(***************************************************************************)
\* self.running = True
ClientStart ==
    /\ pc = "init"
    /\ running' = TRUE
    /\ pc' = "outer"
    /\ UNCHANGED <<pipeVars, workerVars, readerVars, apiVars>>
    /\ UNCHANGED <<stopCalled, conn, inbox, arrived, delivered, active, finished,
                   cbRaised, everFailed>>

\* while self.running:  (outer)
OuterTest ==
    /\ pc = "outer"
    /\ pc' = IF running THEN "connecting" ELSE "returned"
    /\ UNCHANGED <<pipeVars, workerVars, readerVars, apiVars>>
    /\ UNCHANGED <<running, stopCalled, conn, inbox, arrived, delivered, active,
                   finished, cbRaised, everFailed>>

\* websockets.connect(url) succeeds.
ConnectOk ==
    /\ pc = "connecting"
    /\ conn' = "open"
    /\ inbox' = <<>>
    /\ pc' = "inner"
    /\ UNCHANGED <<pipeVars, workerVars, readerVars, apiVars>>
    /\ UNCHANGED <<running, stopCalled, arrived, delivered, active, finished,
                   cbRaised, everFailed>>

\* websockets.connect(url) raises (refused, handshake error, open timeout).
ConnectFail ==
    /\ pc = "connecting"
    /\ pc' = "except"
    /\ UNCHANGED <<pipeVars, workerVars, readerVars, apiVars>>
    /\ UNCHANGED <<running, stopCalled, conn, inbox, arrived, delivered, active,
                   finished, cbRaised, everFailed>>

\* while self.running:  (inner); leaving it leaves the async with, which closes
\* the connection.
InnerTest ==
    /\ pc = "inner"
    /\ IF running
       THEN pc' = "recv" /\ UNCHANGED <<conn, inbox>>
       ELSE pc' = "outer" /\ conn' = "none" /\ inbox' = <<>>
    /\ UNCHANGED <<pipeVars, workerVars, readerVars, apiVars>>
    /\ UNCHANGED <<running, stopCalled, arrived, delivered, active, finished,
                   cbRaised, everFailed>>

\* msg = await ws.recv() returns the oldest message received, and
\* self.callback(msg) is called.
RecvMsg ==
    /\ pc = "recv"
    /\ inbox /= <<>>
    /\ inbox' = Tail(inbox)
    /\ delivered' = Append(delivered, Head(inbox))
    /\ active' = active \cup {Head(inbox)}
    /\ cbRaised' = FALSE
    /\ pc' = "callback"
    /\ UNCHANGED <<pipeVars, workerVars, readerVars, apiVars>>
    /\ UNCHANGED <<running, stopCalled, conn, arrived, finished, everFailed>>

\* await ws.recv() raises ConnectionClosed: the connection is gone and nothing
\* received is left to return.
RecvRaise ==
    /\ pc = "recv"
    /\ conn = "dead"
    /\ inbox = <<>>
    /\ conn' = "none"
    /\ pc' = "except"
    /\ UNCHANGED <<pipeVars, workerVars, readerVars, apiVars>>
    /\ UNCHANGED <<running, stopCalled, inbox, arrived, delivered, active, finished,
                   cbRaised, everFailed>>

\* The callback of message m runs to its end, returning or raising.
CallbackFinish(m, raises) ==
    /\ m \in active
    /\ active' = active \ {m}
    /\ finished' = Append(finished, m)
    /\ cbRaised' = (cbRaised \/ raises)
    /\ UNCHANGED <<pipeVars, workerVars, readerVars, apiVars>>
    /\ UNCHANGED <<pc, running, stopCalled, conn, inbox, arrived, delivered, everFailed>>

\* Mutant of AwaitReturns: the callback is scheduled (create_task) and not awaited.
AwaitReturns_NotAwaited(act) == TRUE

\* await self.callback(msg) resumes start() once the callback has finished.
AwaitReturns(act) == act = {}

\* The await of the callback ends: with its exception, which leaves the
\* async with (closing the connection) for the except clause, or normally.
AwaitCallback ==
    /\ pc = "callback"
    /\ AwaitReturns(active)
    /\ IF cbRaised
       THEN pc' = "except" /\ conn' = "none" /\ inbox' = <<>>
       ELSE pc' = "inner" /\ UNCHANGED <<conn, inbox>>
    /\ UNCHANGED <<pipeVars, workerVars, readerVars, apiVars>>
    /\ UNCHANGED <<running, stopCalled, arrived, delivered, active, finished,
                   cbRaised, everFailed>>

\* Mutant of ExceptClause: the handler logs and raises again, which ends start().
ExceptClause_Reraises ==
    /\ pc = "except"
    /\ everFailed' = TRUE
    /\ pc' = "returned"
    /\ UNCHANGED <<pipeVars, workerVars, readerVars, apiVars>>
    /\ UNCHANGED <<running, stopCalled, conn, inbox, arrived, delivered, active,
                   finished, cbRaised>>

\* except Exception as e: logging.error(...), then the sleep starts.
ExceptClause ==
    /\ pc = "except"
    /\ everFailed' = TRUE
    /\ pc' = "backoff"
    /\ UNCHANGED <<pipeVars, workerVars, readerVars, apiVars>>
    /\ UNCHANGED <<running, stopCalled, conn, inbox, arrived, delivered, active,
                   finished, cbRaised>>

\* Mutant of AfterBackoff: the except clause ends start() instead of retrying.
AfterBackoff_GivesUp == "returned"

\* Where start() goes when asyncio.sleep(5) is over: back to the outer test.
AfterBackoff == "outer"

BackoffDone ==
    /\ pc = "backoff"
    /\ pc' = AfterBackoff
    /\ UNCHANGED <<pipeVars, workerVars, readerVars, apiVars>>
    /\ UNCHANGED <<running, stopCalled, conn, inbox, arrived, delivered, active,
                   finished, cbRaised, everFailed>>

\* BinanceClient.stop(), called from another thread on a client that start() runs.
Stop ==
    /\ pc /= "init"
    /\ running' = FALSE
    /\ stopCalled' = TRUE
    /\ UNCHANGED <<pipeVars, workerVars, readerVars, apiVars>>
    /\ UNCHANGED <<pc, conn, inbox, arrived, delivered, active, finished, cbRaised,
                   everFailed>>

\* The network: a message arrives on the open connection.
NetDeliver ==
    /\ conn = "open"
    /\ arrived < MaxArrivals
    /\ arrived' = arrived + 1
    /\ inbox' = Append(inbox, arrived + 1)
    /\ UNCHANGED <<pipeVars, workerVars, readerVars, apiVars>>
    /\ UNCHANGED <<pc, running, stopCalled, conn, delivered, active, finished,
                   cbRaised, everFailed>>

\* The network: the open connection fails or is closed by the peer.
NetClose ==
    /\ conn = "open"
    /\ conn' = "dead"
    /\ UNCHANGED <<pipeVars, workerVars, readerVars, apiVars>>
    /\ UNCHANGED <<pc, running, stopCalled, inbox, arrived, delivered, active,
                   finished, cbRaised, everFailed>>

\* The steps the event loop takes once they are possible.
ClientStep ==
    \/ ClientStart
    \/ OuterTest
    \/ ConnectOk
    \/ ConnectFail
    \/ InnerTest
    \/ RecvMsg
    \/ RecvRaise
    \/ \E m \in 1..MaxArrivals, raises \in BOOLEAN : CallbackFinish(m, raises)
    \/ AwaitCallback
    \/ ExceptClause
    \/ BackoffDone

ClientNext ==
    \/ ClientStep
    \/ Stop
    \/ NetDeliver
    \/ NetClose

\* The event loop runs a coroutine that can continue: a connect attempt ends
\* (it has an open timeout), the callback ends, the sleep ends.  Nothing makes
\* the network deliver a message or close the connection, and nothing makes a
\* caller stop the client.
ClientSpec == Init /\ [][ClientNext]_vars /\ WF_vars(ClientStep)

Spec == Init /\ [][Next]_vars

(***************************************************************************)
(* ingestion.py and stream_manager.py together: the client with            *)
(* _process_msg as its callback, on the text of each message.              *)
(***************************************************************************)
\* A trade message without the key p.
NoPriceMsg ==
    JsonMsg("object", Str("trade"), Str("BTCUSDT"), Num(1500), Absent, NumStr(1))
\* Texts the connection delivers: two trades of a configured symbol, a trade of
\* a symbol that is not configured, a trade without a price, and a text that
\* is not JSON.
FeedMsgs ==
    {TradeMsg("BTCUSDT", 500, <<1, 2>>), TradeMsg("BTCUSDT", 1500, <<2, 1>>),
     UnknownMsg, NoPriceMsg, GarbageMsg}

\* await self.callback(msg), the callback being _process_msg: it runs on the
\* text msg of message m to its end, returning or raising.
ProcessMsgFinish(m, msg) ==
    /\ m \in active
    /\ RunProcessMsg(msg, NoFault)
    /\ active' = active \ {m}
    /\ finished' = Append(finished, m)
    /\ cbRaised' = (cbRaised \/ raised')
    /\ UNCHANGED <<pc, running, stopCalled, conn, inbox, arrived, delivered, everFailed>>
    /\ UNCHANGED <<workerVars, readerVars, apiVars>>

\* The steps the event loop takes once they are possible.
FeedStep ==
    \/ ClientStart
    \/ OuterTest
    \/ ConnectOk
    \/ ConnectFail
    \/ InnerTest
    \/ RecvMsg
    \/ RecvRaise
    \/ \E m \in 1..MaxArrivals, msg \in FeedMsgs : ProcessMsgFinish(m, msg)
    \/ AwaitCallback
    \/ ExceptClause
    \/ BackoffDone

FeedNext ==
    \/ FeedStep
    \/ Stop
    \/ NetDeliver
    \/ NetClose

\* Scheduled as in ClientSpec.
FeedSpec == Init /\ [][FeedNext]_vars /\ WF_vars(FeedStep)

(***************************************************************************)
(* stream_manager.py: StreamManager() and start() called by several        *)
(* threads, one action per statement (the interpreter switches threads     *)
(* between bytecodes, so between any two statements).  A caller is at      *)
(*   idle        between calls                                             *)
(*   n_lock      __new__, waiting for the lock (line 20)                   *)
(*   n_test2     __new__, at the test inside the lock (line 21)            *)
(*   n_create    __new__, before line 22                                   *)
(*   n_flag      __new__, before line 23                                   *)
(*   n_unlock    __new__, leaving the with block                           *)
(*   n_ret       __new__, before line 24                                   *)
(*   i_test      __init__, before line 27                                  *)
(*   i_db, i_resampler, i_ticks, i_bars, i_client, i_thread, i_flag        *)
(*               __init__, before lines 31, 32, 37, 40, 46, 47, 49         *)
(*   s_create    start, before line 55                                     *)
(*   s_run       start, before line 56                                     *)
(*   raised      its call has raised                                       *)
(***************************************************************************)
\* The state before any StreamManager() call.
MgrInit == PipeInit /\ ClientInit /\ ThreadsInit /\ ProcessStart /\ CallsInit

\* __new__, lines 19 and 21:  cls._instance is None
InstanceMissing(inst) == inst = 0

\* StreamManager() is called; __new__, line 19.
New_Test(c) ==
    /\ cpc[c] = "idle"
    /\ cpc' = [cpc EXCEPT ![c] = IF InstanceMissing(instance) THEN "n_lock" ELSE "n_ret"]
    /\ UNCHANGED <<instance, lock, initialized, created, thread, threads, cself>>
    /\ UNCHANGED <<pipeVars, clientVars, workerVars, readerVars, accVars, dbcVars, normVars>>

\* __new__, line 20:  with cls._lock
New_Acquire(c) ==
    /\ cpc[c] = "n_lock"
    /\ lock = 0
    /\ lock' = c
    /\ cpc' = [cpc EXCEPT ![c] = "n_test2"]
    /\ UNCHANGED <<instance, initialized, created, thread, threads, cself>>
    /\ UNCHANGED <<pipeVars, clientVars, workerVars, readerVars, accVars, dbcVars, normVars>>

\* __new__, line 21.
New_Test2(c) ==
    /\ cpc[c] = "n_test2"
    /\ cpc' = [cpc EXCEPT ![c] = IF InstanceMissing(instance) THEN "n_create" ELSE "n_unlock"]
    /\ UNCHANGED <<instance, lock, initialized, created, thread, threads, cself>>
    /\ UNCHANGED <<pipeVars, clientVars, workerVars, readerVars, accVars, dbcVars, normVars>>

\* __new__, line 22: a new object, which has no attribute yet.
New_Create(c) ==
    /\ cpc[c] = "n_create"
    /\ instance' = instance + 1
    /\ initialized' = "unset"
    /\ cpc' = [cpc EXCEPT ![c] = "n_flag"]
    /\ UNCHANGED <<lock, created, thread, threads, cself>>
    /\ UNCHANGED <<pipeVars, clientVars, workerVars, readerVars, accVars, dbcVars, normVars>>

\* __new__, line 23:  cls._instance._initialized = False
New_SetFlag(c) ==
    /\ cpc[c] = "n_flag"
    /\ initialized' = "False"
    /\ cpc' = [cpc EXCEPT ![c] = "n_unlock"]
    /\ UNCHANGED <<instance, lock, created, thread, threads, cself>>
    /\ UNCHANGED <<pipeVars, clientVars, workerVars, readerVars, accVars, dbcVars, normVars>>

\* __new__: the with block ends and the lock is released.
New_Release(c) ==
    /\ cpc[c] = "n_unlock"
    /\ lock' = 0
    /\ cpc' = [cpc EXCEPT ![c] = "n_ret"]
    /\ UNCHANGED <<instance, initialized, created, thread, threads, cself>>
    /\ UNCHANGED <<pipeVars, clientVars, workerVars, readerVars, accVars, dbcVars, normVars>>

\* __new__, line 24:  return cls._instance; __init__ is then called on it.
New_Return(c) ==
    /\ cpc[c] = "n_ret"
    /\ cself' = [cself EXCEPT ![c] = instance]
    /\ cpc' = [cpc EXCEPT ![c] = "i_test"]
    /\ UNCHANGED <<instance, lock, initialized, created, thread, threads>>
    /\ UNCHANGED <<pipeVars, clientVars, workerVars, readerVars, accVars, dbcVars, normVars>>

\* __init__, line 27:  if self._initialized: return.  Reading the attribute
\* before line 23 has set it raises AttributeError.
Init_Test(c) ==
    /\ cpc[c] = "i_test"
    /\ cpc' = [cpc EXCEPT ![c] = CASE initialized = "unset" -> "raised"
                                    [] initialized = "True"  -> "idle"
                                    [] OTHER                 -> "i_db"]
    /\ UNCHANGED <<instance, lock, initialized, created, thread, threads, cself>>
    /\ UNCHANGED <<pipeVars, clientVars, workerVars, readerVars, accVars, dbcVars, normVars>>

\* __init__, line 31:  self.db = DatabaseHandler(DB_PATH); _init_db keeps the
\* tables the file has.
Init_Db(c) ==
    /\ cpc[c] = "i_db"
    /\ created' = [created EXCEPT !["db"] = @ + 1]
    /\ cpc' = [cpc EXCEPT ![c] = "i_resampler"]
    /\ UNCHANGED <<instance, lock, initialized, thread, threads, cself>>
    /\ UNCHANGED <<pipeVars, clientVars, workerVars, readerVars, accVars, dbcVars, normVars>>

\* __init__, lines 32 and 33:  self.resampler = Resampler(), with no open bar.
Init_Resampler(c) ==
    /\ cpc[c] = "i_resampler"
    /\ created' = [created EXCEPT !["resampler"] = @ + 1]
    /\ current_bars' = [tf \in TFSet |-> [s \in Symbols |-> 0]]
    /\ cpc' = [cpc EXCEPT ![c] = "i_ticks"]
    /\ UNCHANGED <<instance, lock, initialized, thread, threads, cself>>
    /\ UNCHANGED <<heap, tick_buffer, bar_buffer, dbVars, callVars, histVars>>
    /\ UNCHANGED <<clientVars, workerVars, readerVars, accVars, dbcVars, normVars>>

\* __init__, line 37:  self.tick_buffer = {s: deque(maxlen=2000) ...}
Init_TickBuffer(c) ==
    /\ cpc[c] = "i_ticks"
    /\ created' = [created EXCEPT !["tick_buffer"] = @ + 1]
    /\ tick_buffer' = [s \in Symbols |-> <<>>]
    /\ cpc' = [cpc EXCEPT ![c] = "i_bars"]
    /\ UNCHANGED <<instance, lock, initialized, thread, threads, cself>>
    /\ UNCHANGED <<heap, current_bars, bar_buffer, dbVars, callVars, histVars>>
    /\ UNCHANGED <<clientVars, workerVars, readerVars, accVars, dbcVars, normVars>>

\* __init__, lines 40 to 44:  self.bar_buffer = {...}
Init_BarBuffer(c) ==
    /\ cpc[c] = "i_bars"
    /\ created' = [created EXCEPT !["bar_buffer"] = @ + 1]
    /\ bar_buffer' = [tf \in TFSet |-> [s \in Symbols |-> <<>>]]
    /\ cpc' = [cpc EXCEPT ![c] = "i_client"]
    /\ UNCHANGED <<instance, lock, initialized, thread, threads, cself>>
    /\ UNCHANGED <<heap, current_bars, tick_buffer, dbVars, callVars, histVars>>
    /\ UNCHANGED <<clientVars, workerVars, readerVars, accVars, dbcVars, normVars>>

\* __init__, line 46:  self.client = BinanceClient(self.symbols, self._process_msg)
Init_Client(c) ==
    /\ cpc[c] = "i_client"
    /\ created' = [created EXCEPT !["client"] = @ + 1]
    /\ cpc' = [cpc EXCEPT ![c] = "i_thread"]
    /\ UNCHANGED <<instance, lock, initialized, thread, threads, cself>>
    /\ UNCHANGED <<pipeVars, clientVars, workerVars, readerVars, accVars, dbcVars, normVars>>

\* __init__, lines 47 and 48:  self.thread = None; self.loop = None
Init_Thread(c) ==
    /\ cpc[c] = "i_thread"
    /\ thread' = 0
    /\ cpc' = [cpc EXCEPT ![c] = "i_flag"]
    /\ UNCHANGED <<instance, lock, initialized, created, threads, cself>>
    /\ UNCHANGED <<pipeVars, clientVars, workerVars, readerVars, accVars, dbcVars, normVars>>

\* __init__, line 49:  self._initialized = True
Init_Flag(c) ==
    /\ cpc[c] = "i_flag"
    /\ initialized' = "True"
    /\ cpc' = [cpc EXCEPT ![c] = "idle"]
    /\ UNCHANGED <<instance, lock, created, thread, threads, cself>>
    /\ UNCHANGED <<pipeVars, clientVars, workerVars, readerVars, accVars, dbcVars, normVars>>

\* start, line 52:  self.thread and self.thread.is_alive()
WorkerAlive(th, ths) == th /= 0 /\ ths[th] = "alive"

\* start() is called on the instance the caller holds; line 52.  When the worker
\* is alive the call returns at once.
Start_Test(c) ==
    /\ cpc[c] = "idle"
    /\ cself[c] /= 0
    /\ cpc' = [cpc EXCEPT ![c] = IF WorkerAlive(thread, threads) THEN "idle" ELSE "s_create"]
    /\ UNCHANGED <<instance, lock, initialized, created, thread, threads, cself>>
    /\ UNCHANGED <<pipeVars, clientVars, workerVars, readerVars, accVars, dbcVars, normVars>>

\* start, line 55:  self.thread = threading.Thread(target=self._run_loop, daemon=True)
Start_Create(c) ==
    /\ cpc[c] = "s_create"
    /\ Len(threads) < MaxThreads
    /\ threads' = Append(threads, "new")
    /\ thread' = Len(threads) + 1
    /\ cpc' = [cpc EXCEPT ![c] = "s_run"]
    /\ UNCHANGED <<instance, lock, initialized, created, cself>>
    /\ UNCHANGED <<pipeVars, clientVars, workerVars, readerVars, accVars, dbcVars, normVars>>

\* start, line 56:  self.thread.start(), on whatever self.thread is by now: a
\* thread not yet started starts running _run_loop; None, or a thread that has
\* been started, raises.
Start_Run(c) ==
    /\ cpc[c] = "s_run"
    /\ IF thread /= 0 /\ threads[thread] = "new"
       THEN /\ threads' = [threads EXCEPT ![thread] = "alive"]
            /\ cpc' = [cpc EXCEPT ![c] = "idle"]
       ELSE /\ cpc' = [cpc EXCEPT ![c] = "raised"]
            /\ UNCHANGED threads
    /\ UNCHANGED <<instance, lock, initialized, created, thread, cself>>
    /\ UNCHANGED <<pipeVars, clientVars, workerVars, readerVars, accVars, dbcVars, normVars>>

\* A worker thread runs the client, which gives a message to _process_msg.
WorkerMessage(t, msg) ==
    /\ t \in 1..Len(threads)
    /\ threads[t] = "alive"
    /\ nMsgs < MaxMgrMsgs
    /\ Callback(msg, NoFault)

MgrMsgs == {TradeMsg("BTCUSDT", 500, <<1, 2>>), TradeMsg("BTCUSDT", 1500, <<2, 1>>)}

MgrNext ==
    \E c \in Callers :
        \/ New_Test(c)
        \/ New_Acquire(c)
        \/ New_Test2(c)
        \/ New_Create(c)
        \/ New_SetFlag(c)
        \/ New_Release(c)
        \/ New_Return(c)
        \/ Init_Test(c)
        \/ Init_Db(c)
        \/ Init_Resampler(c)
        \/ Init_TickBuffer(c)
        \/ Init_BarBuffer(c)
        \/ Init_Client(c)
        \/ Init_Thread(c)
        \/ Init_Flag(c)
        \/ Start_Test(c)
        \/ Start_Create(c)
        \/ Start_Run(c)
        \/ \E msg \in MgrMsgs : WorkerMessage(c, msg)

MgrSpec == MgrInit /\ [][MgrNext]_vars

(***************************************************************************)
(* stream_manager.py: the accessors, each as one whole call of a consumer  *)
(* between two messages, and the process ending and starting again on the  *)
(* database file it left.                                                  *)
(***************************************************************************)
\* Mutant of RowsOf: the newest bar first.
RowsOf_NewestFirst(ids, objs) == [i \in 1..Len(ids) |-> objs[ids[Len(ids) + 1 - i]]]

\* pd.DataFrame(data): one row per dict of the list, in the order of the list.
RowsOf(ids, objs) == [i \in 1..Len(ids) |-> objs[ids[i]]]

\* Mutant of UseStore: the store is never read.
UseStore_Never(data) == FALSE

\* get_bars_df, line 100:  if not data
UseStore(data) == data = <<>>

\* get_bars_df(timeframe, symbol): the rows of the DataFrame it returns and
\* where they came from.
GetBarsDf(bbuf, objs, dbb, timeframe, symbol) ==
    LET data == bbuf[timeframe][symbol]
    IN  IF UseStore(data)
        THEN [src |-> "store", rows |-> GetBars(dbb[timeframe], symbol, DbReadLimit)]
        ELSE [src |-> "buffer", rows |-> RowsOf(data, objs)]

\* Mutant of GetLatestPrice: the oldest tick of the buffer.
GetLatestPrice_Oldest(tbuf, symbol) ==
    IF tbuf[symbol] /= <<>> THEN tbuf[symbol][1].price ELSE 0

\* get_latest_price(symbol)
GetLatestPrice(tbuf, symbol) ==
    IF tbuf[symbol] /= <<>> THEN tbuf[symbol][Len(tbuf[symbol])].price ELSE 0

GetBarsDfCall(timeframe, symbol) ==
    /\ areq' = [op |-> "get_bars_df", tf |-> timeframe, symbol |-> symbol, limit |-> 0]
    /\ LET df == GetBarsDf(bar_buffer, heap, db_bars, timeframe, symbol)
       IN  abars' = df.rows /\ asrc' = df.src
    /\ aprice' = 0
    /\ UNCHANGED <<pipeVars, clientVars, workerVars, readerVars, mgrVars, dbcVars, normVars>>

GetLatestPriceCall(symbol) ==
    /\ areq' = [op |-> "get_latest_price", tf |-> "", symbol |-> symbol, limit |-> 0]
    /\ aprice' = GetLatestPrice(tick_buffer, symbol)
    /\ abars' = <<>>
    /\ asrc' = "none"
    /\ UNCHANGED <<pipeVars, clientVars, workerVars, readerVars, mgrVars, dbcVars, normVars>>

\* The process ends and is started again in the same directory: StreamManager()
\* and start() run in the new process, _init_db finds the tables of the old one
\* (CREATE TABLE IF NOT EXISTS), and nothing else of the old process is left.
Restart ==
    /\ heap' = <<>>
    /\ current_bars' = [tf \in TFSet |-> [s \in Symbols |-> 0]]
    /\ tick_buffer' = [s \in Symbols |-> <<>>]
    /\ bar_buffer' = [tf \in TFSet |-> [s \in Symbols |-> <<>>]]
    /\ lastMsg' = GarbageMsg
    /\ lastFault' = NoFault
    /\ completed' = <<>>
    /\ raised' = FALSE
    /\ applied' = <<>>
    /\ fed' = [s \in Symbols |-> <<>>]
    /\ emitted' = [tf \in TFSet |-> [s \in Symbols |-> <<>>]]
    /\ tickLog' = [s \in Symbols |-> <<>>]
    /\ barLog' = [tf \in TFSet |-> [s \in Symbols |-> <<>>]]
    /\ areq' = NoRequest
    /\ abars' = <<>>
    /\ asrc' = "none"
    /\ aprice' = 0
    /\ UNCHANGED <<dbVars, nMsgs>>
    /\ UNCHANGED <<clientVars, workerVars, readerVars, mgrVars, dbcVars, normVars>>

\* Trades of the first symbol in three seconds, in any order, and one of the
\* second symbol.
ReadMsgs ==
    {TradeMsg("BTCUSDT", 500, <<2, 1>>), TradeMsg("BTCUSDT", 1500, <<1, 2>>),
     TradeMsg("BTCUSDT", 2500, <<1, 2>>), TradeMsg("ETHUSDT", 500, <<2, 1>>)}

OnMessageRead == \E msg \in ReadMsgs : Callback(msg, NoFault)

ReadNext ==
    \/ OnMessageRead
    \/ \E timeframe \in {"1s", "1m"}, symbol \in Symbols : GetBarsDfCall(timeframe, symbol)
    \/ \E symbol \in Symbols : GetLatestPriceCall(symbol)
    \/ Restart

ReadSpec == Init /\ [][ReadNext]_vars

(***************************************************************************)
(* The DatabaseHandler called directly: insert_tick, insert_bar, get_bars  *)
(* and get_recent_ticks on a store that works, with any arguments.         *)
(***************************************************************************)
\* Timestamps of the rows: with and without a fraction of a second.
DbTimes == {[sec |-> 0, micro |-> 500000], [sec |-> 1, micro |-> 0], [sec |-> 1, micro |-> 500000]}
DbTickRow(s, ts, p) == [symbol |-> s, timestamp |-> ts, price |-> p, size |-> 3 - p]
DbBarRow(s, ts, c) ==
    [symbol |-> s, timestamp |-> ts, open |-> 1, high |-> 2, low |-> 1, close |-> c, volume |-> c + 1]
\* The first symbol at every time, twice with different values at one of the
\* times; the second symbol at the latest time.
DbKeys ==
    {<<"btcusdt", ts, v>> : ts \in DbTimes, v \in {1}}
        \cup {<<"btcusdt", [sec |-> 1, micro |-> 0], 2>>, <<"ethusdt", [sec |-> 1, micro |-> 500000], 2>>}
DbInserts ==
    {[op |-> "tick", tf |-> "", row |-> DbTickRow(k[1], k[2], k[3])] : k \in DbKeys}
        \cup {[op |-> "bar", tf |-> "1s", row |-> DbBarRow(k[1], k[2], k[3])] : k \in DbKeys}
        \cup {[op |-> "bar", tf |-> "1m", row |-> DbBarRow("btcusdt", [sec |-> 1, micro |-> 0], 1)]}
Limits == {0, 1, 2}

\* insert_tick(symbol, timestamp, price, size) or insert_bar(timeframe, bar_data)
InsertCall(c) ==
    /\ Len(dbLog) < MaxDbCalls
    /\ IF c.op = "tick"
       THEN db_ticks' = InsertTick(db_ticks, c.row) /\ UNCHANGED db_bars
       ELSE db_bars' = [db_bars EXCEPT ![c.tf] = InsertBar(@, c.row)] /\ UNCHANGED db_ticks
    /\ dbLog' = Append(dbLog, c)
    /\ UNCHANGED <<memVars, callVars, histVars, dreq, drows>>
    /\ UNCHANGED <<clientVars, workerVars, readerVars, mgrVars, accVars, normVars>>

\* get_bars(timeframe, symbol, limit)
GetBarsCall(tf, symbol, limit) ==
    /\ dreq' = [op |-> "get_bars", tf |-> tf, symbol |-> symbol, limit |-> limit]
    /\ drows' = GetBars(db_bars[tf], symbol, limit)
    /\ UNCHANGED <<pipeVars, dbLog>>
    /\ UNCHANGED <<clientVars, workerVars, readerVars, mgrVars, accVars, normVars>>

\* get_recent_ticks(symbol, limit)
GetRecentTicksCall(symbol, limit) ==
    /\ dreq' = [op |-> "get_recent_ticks", tf |-> "", symbol |-> symbol, limit |-> limit]
    /\ drows' = GetRecentTicks(db_ticks, symbol, limit)
    /\ UNCHANGED <<pipeVars, dbLog>>
    /\ UNCHANGED <<clientVars, workerVars, readerVars, mgrVars, accVars, normVars>>

DbNext ==
    \/ \E c \in DbInserts : InsertCall(c)
    \/ \E symbol \in Symbols, limit \in Limits : GetBarsCall("1s", symbol, limit)
    \/ \E symbol \in Symbols, limit \in Limits : GetRecentTicksCall(symbol, limit)

DbSpec == Init /\ [][DbNext]_vars

(***************************************************************************)
(* Tick.from_binance_msg called directly, on every kind of message.        *)
(***************************************************************************)
\* JSON objects with each key absent, well formed or ill formed.
ObjectMsgs ==
    {JsonMsg("object", e, s, T, p, q) :
        e \in {Absent, Str("trade"), Str("aggTrade")},
        s \in {Absent, Str("BTCUSDT"), Str("BtcUsdt"), Num(7)},
        T \in {Absent, Num(1500), NumStr(500)},
        p \in {Absent, NumStr(1), NumStr(0), NumStr(-1), Str("abc"), Null},
        q \in {Absent, NumStr(1), NumStr(-1), Str("abc")}}
NormMsgs ==
    ObjectMsgs \cup {GarbageMsg,
                     JsonMsg("array", Absent, Absent, Absent, Absent, Absent),
                     JsonMsg("scalar", Absent, Absent, Absent, Absent, Absent)}

FromBinanceMsgCall(msg) ==
    /\ nmsg' = msg
    /\ nout' = Normalize(msg)
    /\ UNCHANGED <<pipeVars, clientVars, workerVars, readerVars, mgrVars, accVars, dbcVars>>

NormNext == \E msg \in NormMsgs : FromBinanceMsgCall(msg)

NormSpec == Init /\ [][NormNext]_vars

(***************************************************************************)
(* The worker thread running _process_msg step by step, beside a reader    *)
(* thread calling the accessors.  The code takes no lock.  Under CPython's *)
(* interpreter lock one operation of a deque (append, list(d), d[-1],      *)
(* bool(d)) and one assignment to a dict key are atomic, and the threads   *)
(* interleave between them: each is one action here.                       *)
(***************************************************************************)
WTick == FromBinanceMsg(lastMsg)

\* Trades of one symbol: two in one second, one in the next second.
ConcMsgs == {TradeMsg("BTCUSDT", t, pq) : t \in {500, 1500}, pq \in PriceQty}

\* _process_msg is called: normalize, and step 1, the tick ring buffer.
W_Begin(msg) ==
    /\ wpc = "idle"
    /\ nMsgs < MaxConcMsgs
    /\ lastMsg' = msg
    /\ lastFault' = NoFault
    /\ nMsgs' = nMsgs + 1
    /\ completed' = <<>>
    /\ LET tick == FromBinanceMsg(msg)
       IN  IF tick.none
           THEN raised' = FALSE /\ UNCHANGED <<wpc, tick_buffer, tickLog>>
           ELSE IF tick.symbol \notin Symbols
           THEN raised' = TRUE /\ UNCHANGED <<wpc, tick_buffer, tickLog>>
           ELSE /\ tick_buffer' = [tick_buffer EXCEPT ![tick.symbol] = DequeAppend(@, tick, TickBufLen)]
                /\ tickLog' = [tickLog EXCEPT ![tick.symbol] = Append(@, tick)]
                /\ raised' = FALSE
                /\ wpc' = "insert_tick"
    /\ UNCHANGED <<heap, current_bars, bar_buffer, dbVars, applied, fed, emitted, barLog>>
    /\ UNCHANGED <<wtf, wfield, wi, clientVars, readerVars, apiVars>>

\* Step 2, insert_tick, and process_tick is entered.
W_InsertTick ==
    /\ wpc = "insert_tick"
    /\ db_ticks' = InsertTick(db_ticks, WTick)
    /\ fed' = [fed EXCEPT ![WTick.symbol] = Append(@, WTick)]
    /\ wtf' = 1
    /\ wpc' = "tf"
    /\ UNCHANGED <<memVars, db_bars, callVars, applied, emitted, tickLog, barLog>>
    /\ UNCHANGED <<wfield, wi, clientVars, readerVars, apiVars>>

\* The loop of process_tick goes to its next timeframe, or process_tick returns.
AfterTf(i) == IF i = Len(TFOrder) THEN "bars" ELSE "tf"

\* One iteration of the loop of process_tick: a first bar or a completed bar in
\* one step (the new dict is not shared yet), or _update_bar is entered.
W_Tf ==
    /\ wpc = "tf"
    /\ LET tf == TFOrder[wtf]
           id == current_bars[tf][WTick.symbol]
       IN  IF id /= 0 /\ ~BoundaryDiffers(AlignTime(WTick.timestamp, tf), heap[id].timestamp)
           THEN /\ wpc' = "update"
                /\ wfield' = 1
                /\ UNCHANGED <<heap, applied, current_bars, completed, emitted, wtf, wi>>
           ELSE LET R == ProcessTickTf([heap |-> heap, applied |-> applied,
                                        cur |-> current_bars, completed |-> completed],
                                       WTick, tf)
                IN  /\ heap' = R.heap
                    /\ applied' = R.applied
                    /\ current_bars' = R.cur
                    /\ completed' = R.completed
                    /\ emitted' = [emitted EXCEPT ![tf][WTick.symbol] =
                                      @ \o CompletedOf(SubSeq(R.completed, Len(completed) + 1,
                                                              Len(R.completed)), tf)]
                    /\ wpc' = AfterTf(wtf)
                    /\ wtf' = IF wtf = Len(TFOrder) THEN wtf ELSE wtf + 1
                    /\ wi' = 1
                    /\ UNCHANGED wfield
    /\ UNCHANGED <<tick_buffer, bar_buffer, dbVars, lastMsg, lastFault, raised, nMsgs,
                   fed, tickLog, barLog>>
    /\ UNCHANGED <<clientVars, readerVars, apiVars>>

\* One assignment of _update_bar to the open bar of the timeframe.
W_Update ==
    /\ wpc = "update"
    /\ LET tf == TFOrder[wtf]
           id == current_bars[tf][WTick.symbol]
       IN  /\ heap' = [heap EXCEPT ![id] = UpdateBarField(@, WTick, wfield)]
           /\ IF wfield < 4
              THEN /\ wfield' = wfield + 1
                   /\ UNCHANGED <<applied, wpc, wtf, wi>>
              ELSE /\ applied' = [applied EXCEPT ![id].ticks = Append(@, WTick)]
                   /\ wfield' = 1
                   /\ wpc' = AfterTf(wtf)
                   /\ wtf' = IF wtf = Len(TFOrder) THEN wtf ELSE wtf + 1
                   /\ wi' = 1
    /\ UNCHANGED <<current_bars, tick_buffer, bar_buffer, dbVars, callVars,
                   fed, emitted, tickLog, barLog>>
    /\ UNCHANGED <<clientVars, readerVars, apiVars>>

\* Step 4, the loop over new_bars: the bar goes into its ring buffer, or the
\* loop is over and _process_msg returns.
W_AppendBar ==
    /\ wpc = "bars"
    /\ IF wi > Len(completed)
       THEN /\ wpc' = "idle"
            /\ UNCHANGED <<bar_buffer, barLog>>
       ELSE LET tf == completed[wi][1]
                id == completed[wi][2]
            IN  /\ bar_buffer' = [bar_buffer EXCEPT ![tf][heap[id].symbol] =
                                     DequeAppend(@, id, BarBufLen(tf))]
                /\ barLog' = [barLog EXCEPT ![tf][heap[id].symbol] = Append(@, id)]
                /\ wpc' = "insert_bar"
    /\ UNCHANGED <<heap, current_bars, tick_buffer, dbVars, callVars,
                   applied, fed, emitted, tickLog>>
    /\ UNCHANGED <<wtf, wfield, wi, clientVars, readerVars, apiVars>>

\* Mutant of W_InsertBar: the bar just buffered is not persisted.
W_InsertBar_Skipped ==
    /\ wpc = "insert_bar"
    /\ wi' = wi + 1
    /\ wpc' = "bars"
    /\ UNCHANGED <<memVars, dbVars, callVars, histVars>>
    /\ UNCHANGED <<wtf, wfield, clientVars, readerVars, apiVars>>

\* Step 4, insert_bar of the bar just buffered.
W_InsertBar ==
    /\ wpc = "insert_bar"
    /\ db_bars' = [db_bars EXCEPT ![completed[wi][1]] = InsertBar(@, heap[completed[wi][2]])]
    /\ wi' = wi + 1
    /\ wpc' = "bars"
    /\ UNCHANGED <<memVars, db_ticks, callVars, histVars>>
    /\ UNCHANGED <<wtf, wfield, clientVars, readerVars, apiVars>>

\* get_bars_df(tf, s): data = list(self.bar_buffer[timeframe][symbol])
R_GetBars(tf, s) ==
    /\ rpc = "idle"
    /\ rtf' = tf
    /\ rsym' = s
    /\ snap' = bar_buffer[tf][s]
    /\ rdf' = <<>>
    /\ rpc' = IF bar_buffer[tf][s] = <<>> THEN "db" ELSE "rows"
    /\ UNCHANGED <<rseen, rprice, pipeVars, clientVars, workerVars, apiVars>>

\* get_bars_df, if not data: the rows of self.db.get_bars(timeframe, symbol, limit=200)
R_FromDb ==
    /\ rpc = "db"
    /\ rdf' = GetBars(db_bars[rtf], rsym, DbReadLimit)
    /\ rpc' = "done"
    /\ UNCHANGED <<rtf, rsym, snap, rseen, rprice, pipeVars, clientVars, workerVars, apiVars>>

\* get_bars_df, pd.DataFrame(data): the fields of the next dict of data are read.
R_Row ==
    /\ rpc = "rows"
    /\ rdf' = Append(rdf, heap[snap[Len(rdf) + 1]])
    /\ rpc' = IF Len(rdf) + 1 = Len(snap) THEN "done" ELSE "rows"
    /\ UNCHANGED <<rtf, rsym, snap, rseen, rprice, pipeVars, clientVars, workerVars, apiVars>>

\* get_latest_price(s): if self.tick_buffer[symbol], else return 0.0
R_LatestTest(s) ==
    /\ rpc = "idle"
    /\ rsym' = s
    /\ rseen' = Len(tickLog[s])
    /\ IF tick_buffer[s] /= <<>>
       THEN rpc' = "price" /\ UNCHANGED rprice
       ELSE rpc' = "done" /\ rprice' = 0
    /\ snap' = <<>>
    /\ rdf' = <<>>
    /\ UNCHANGED <<rtf, pipeVars, clientVars, workerVars, apiVars>>

\* get_latest_price: return self.tick_buffer[symbol][-1].price
R_LatestRead ==
    /\ rpc = "price"
    /\ rprice' = tick_buffer[rsym][Len(tick_buffer[rsym])].price
    /\ rpc' = "done"
    /\ UNCHANGED <<rtf, rsym, snap, rdf, rseen, pipeVars, clientVars, workerVars, apiVars>>

\* The accessor returns to its caller.
R_Return ==
    /\ rpc = "done"
    /\ rpc' = "idle"
    /\ snap' = <<>>
    /\ rdf' = <<>>
    /\ rseen' = 0
    /\ rprice' = 0
    /\ UNCHANGED <<rtf, rsym, pipeVars, clientVars, workerVars, apiVars>>

ConcNext ==
    \/ \E msg \in ConcMsgs : W_Begin(msg)
    \/ W_InsertTick
    \/ W_Tf
    \/ W_Update
    \/ W_AppendBar
    \/ W_InsertBar
    \/ \E tf \in {"1s", "1m"} : R_GetBars(tf, "btcusdt")
    \/ R_FromDb
    \/ R_Row
    \/ R_LatestTest("btcusdt")
    \/ R_LatestRead
    \/ R_Return

ConcSpec == Init /\ [][ConcNext]_vars

(***************************************************************************)
(* Vocabulary of the properties.                                           *)
(***************************************************************************)
\* The interval boundary of a tick: its epoch seconds floored to the length of
\* the timeframe.
IntervalLength(tf) == CASE tf = "1s" -> 1 [] tf = "1m" -> 60 [] tf = "5m" -> 300
BoundaryOf(tick, tf) ==
    [sec |-> (tick.timestamp.sec \div IntervalLength(tf)) * IntervalLength(tf), micro |-> 0]

\* The maximal runs of consecutive ticks of a log that share a boundary.
RunStarts(log, tf) ==
    {i \in 1..Len(log) : i = 1 \/ BoundaryOf(log[i - 1], tf) /= BoundaryOf(log[i], tf)}
NumRuns(log, tf) == Cardinality(RunStarts(log, tf))
RunStart(log, tf, j) ==
    CHOOSE i \in RunStarts(log, tf) : Cardinality({k \in RunStarts(log, tf) : k <= i}) = j
RunEnd(log, tf, j) ==
    IF j = NumRuns(log, tf) THEN Len(log) ELSE RunStart(log, tf, j + 1) - 1

RECURSIVE SumSizes(_)
SumSizes(ticks) == IF ticks = <<>> THEN 0 ELSE Head(ticks).size + SumSizes(Tail(ticks))

\* The bar that aggregates ticks log[lo..hi].
AggregateOf(log, lo, hi, tf) ==
    LET prices == {log[i].price : i \in lo..hi}
    IN  [symbol |-> log[lo].symbol, timestamp |-> BoundaryOf(log[lo], tf),
         open   |-> log[lo].price,
         high   |-> CHOOSE p \in prices : \A q \in prices : q <= p,
         low    |-> CHOOSE p \in prices : \A q \in prices : p <= q,
         close  |-> log[hi].price,
         volume |-> SumSizes(SubSeq(log, lo, hi))]
RunBar(log, tf, j) == AggregateOf(log, RunStart(log, tf, j), RunEnd(log, tf, j), tf)

\* The last call gave its tick to process_tick.
LastTick == FromBinanceMsg(lastMsg)
LastFed ==
    /\ nMsgs > 0
    /\ ~LastTick.none
    /\ LastTick.symbol \in Symbols
    /\ lastFault.tick /= "connect"

TfRank(tf) == CASE tf = "1s" -> 1 [] tf = "1m" -> 2 [] tf = "5m" -> 3

LastN(seq, n) == SubSeq(seq, Len(seq) - n + 1, Len(seq))
BufferedIds == UNION {{bar_buffer[tf][s][i] : i \in 1..Len(bar_buffer[tf][s])} : tf \in TFSet, s \in Symbols}
OpenIds == {current_bars[tf][s] : tf \in TFSet, s \in Symbols} \ {0}

(***************************************************************************)
(* C1. Aggregation of one interval: for every timeframe and symbol, the    *)
(* bars emitted so far are, in order, the aggregates of the maximal runs   *)
(* of same-boundary ticks fed so far except the last run, and the last run *)
(* is the open bar: no bar is emitted while ticks share the boundary, the  *)
(* tick that changes the boundary emits exactly one bar with timestamp B,  *)
(* open = first price, close = last price, high = max, low = min and       *)
(* volume = sum of sizes of the run; a first tick opens o=h=l=c=price,     *)
(* v=size.                                                                 *)
(***************************************************************************)
C1_IntervalAggregation ==
    \A tf \in TFSet, s \in Symbols :
        LET n == NumRuns(fed[s], tf)
        IN  /\ Len(emitted[tf][s]) = IF n = 0 THEN 0 ELSE n - 1
            /\ \A j \in 1..(n - 1) : heap[emitted[tf][s][j]] = RunBar(fed[s], tf, j)
            /\ n = 0 => current_bars[tf][s] = 0
            /\ n > 0 => /\ current_bars[tf][s] /= 0
                        /\ heap[current_bars[tf][s]] = RunBar(fed[s], tf, n)

\* A run of two ticks with different prices was emitted by a third tick.
C1_Witness ==
    \E tf \in TFSet, s \in Symbols :
        /\ Len(emitted[tf][s]) = 1
        /\ NumRuns(fed[s], tf) = 2
        /\ RunStart(fed[s], tf, 2) = 3
        /\ heap[emitted[tf][s][1]].high > heap[emitted[tf][s][1]].low
        /\ heap[emitted[tf][s][1]].volume = 3

(***************************************************************************)
(* C2. Emission order: the list one process_tick call returns is strictly  *)
(* ordered 1s, 1m, 5m (so at most one bar per timeframe), and a tick that  *)
(* advances the 1s and the 1m boundary of its symbol returns the 1s bar    *)
(* first and the 1m bar second.                                            *)
(***************************************************************************)
C2_EmissionOrder ==
    /\ \A i, j \in 1..Len(completed) :
           i < j => TfRank(completed[i][1]) < TfRank(completed[j][1])
    /\ LastFed =>
           LET log == fed[LastTick.symbol]
               n   == Len(log)
           IN  (/\ n >= 2
                /\ BoundaryOf(log[n - 1], "1s") /= BoundaryOf(log[n], "1s")
                /\ BoundaryOf(log[n - 1], "1m") /= BoundaryOf(log[n], "1m"))
               => /\ Len(completed) >= 2
                  /\ completed[1][1] = "1s"
                  /\ completed[2][1] = "1m"
                  /\ heap[completed[1][2]].timestamp = BoundaryOf(log[n - 1], "1s")
                  /\ heap[completed[2][2]].timestamp = BoundaryOf(log[n - 1], "1m")

\* One tick completed a bar in all three timeframes.
C2_Witness ==
    /\ Len(completed) = 3
    /\ completed[1][1] = "1s"
    /\ completed[3][1] = "5m"

(***************************************************************************)
(* C3. Bar invariant: every bar object, open or emitted, has               *)
(* low <= open <= high, low <= close <= high and volume = the sum of the   *)
(* sizes of the ticks applied to it while it was open; and each            *)
(* (timeframe, symbol) has at most one bar that was not emitted, the one   *)
(* in its current_bars slot.                                               *)
(***************************************************************************)
C3_BarInvariant ==
    /\ \A id \in 1..Len(heap) :
           /\ heap[id].low <= heap[id].open /\ heap[id].open <= heap[id].high
           /\ heap[id].low <= heap[id].close /\ heap[id].close <= heap[id].high
           /\ heap[id].volume = SumSizes(applied[id].ticks)
    /\ \A tf \in TFSet, s \in Symbols :
           LET open == {id \in 1..Len(heap) :
                           /\ applied[id].tf = tf
                           /\ heap[id].symbol = s
                           /\ \A j \in 1..Len(emitted[tf][s]) : emitted[tf][s][j] /= id}
           IN  /\ Cardinality(open) <= 1
               /\ open = {current_bars[tf][s]} \ {0}

\* A bar took three ticks, opened at its high and closed below it, after another
\* bar of its slot had been emitted.
C3_Witness ==
    \E id \in 1..Len(heap) :
        /\ Len(applied[id].ticks) = 3
        /\ heap[id].low < heap[id].high
        /\ heap[id].close < heap[id].high
        /\ heap[id].open = heap[id].high
        /\ Len(emitted[applied[id].tf][heap[id].symbol]) >= 1

(***************************************************************************)
(* C4. Completed bars are immutable: no step changes a field of a bar      *)
(* object that is in a bar ring buffer, and no buffered object is the open *)
(* bar of any (timeframe, symbol).                                         *)
(***************************************************************************)
C4_CompletedImmutable ==
    [][/\ \A id \in BufferedIds : heap'[id] = heap[id]
       /\ BufferedIds' \cap OpenIds' = {}]_vars

\* A bar is buffered and the open bar that replaced it in its slot was updated by
\* a later tick, with a tick of the other symbol handled as well.
C4_Witness ==
    \E tf \in TFSet, s \in Symbols :
        /\ Len(bar_buffer[tf][s]) >= 1
        /\ Len(applied[current_bars[tf][s]].ticks) >= 2
        /\ \E o \in Symbols \ {s} : Len(fed[o]) >= 1

(***************************************************************************)
(* C5. Reader snapshot consistency: with the reader's steps interleaved    *)
(* with the worker's, the list get_bars_df takes from a ring buffer is the *)
(* buffer's content after some whole number of appends; every bar in it is *)
(* an emitted bar that is no longer open and whose fields are the final    *)
(* aggregate of its interval; every row read from it, whenever it is read, *)
(* has exactly those fields; a row read from the store is an emitted bar;  *)
(* and get_latest_price returns 0 on an empty buffer and otherwise the     *)
(* price of a tick at least as new as the newest one when it was called.   *)
(***************************************************************************)
C5_ReaderConsistency ==
    /\ rpc \in {"rows", "db", "done"} =>
           /\ \E k \in 0..Len(barLog[rtf][rsym]) :
                  snap = LastN(SubSeq(barLog[rtf][rsym], 1, k), Min2(k, BarBufLen(rtf)))
           /\ \A i \in 1..Len(snap) :
                  /\ snap[i] \notin OpenIds
                  /\ \E j \in 1..Len(emitted[rtf][rsym]) :
                         /\ emitted[rtf][rsym][j] = snap[i]
                         /\ heap[snap[i]] = RunBar(fed[rsym], rtf, j)
           /\ snap /= <<>> =>
                  /\ Len(rdf) <= Len(snap)
                  /\ \A i \in 1..Len(rdf) : rdf[i] = heap[snap[i]]
           /\ snap = <<>> =>
                  \A i \in 1..Len(rdf) :
                      \E j \in 1..Len(emitted[rtf][rsym]) :
                          rdf[i] = RunBar(fed[rsym], rtf, j)
    /\ (rpc = "done" /\ snap = <<>> /\ rdf = <<>> /\ rseen = 0) => rprice = 0
    /\ (rpc = "done" /\ rseen > 0) =>
           \E k \in rseen..Len(tickLog[rsym]) : rprice = tickLog[rsym][k].price

\* The reader has read a row of its snapshot while the worker is in the middle
\* of _update_bar on the open bar of the same timeframe and symbol.
C5_Witness ==
    /\ rpc \in {"rows", "done"}
    /\ Len(rdf) >= 1
    /\ snap /= <<>>
    /\ wpc = "update"
    /\ wfield >= 2
    /\ TFOrder[wtf] = rtf
    /\ WTick.symbol = rsym

(***************************************************************************)
(* C6. Ring buffer bound and FIFO eviction: after N appends to a ring      *)
(* buffer of capacity C its length is min(N, C) and its content is the     *)
(* last min(N, C) appended items in arrival order.                         *)
(***************************************************************************)
C6_RingBuffer ==
    /\ \A s \in Symbols :
           /\ Len(tick_buffer[s]) = Min2(Len(tickLog[s]), TickBufLen)
           /\ tick_buffer[s] = LastN(tickLog[s], Min2(Len(tickLog[s]), TickBufLen))
    /\ \A tf \in TFSet, s \in Symbols :
           /\ Len(bar_buffer[tf][s]) = Min2(Len(barLog[tf][s]), BarBufLen(tf))
           /\ bar_buffer[tf][s] = LastN(barLog[tf][s], Min2(Len(barLog[tf][s]), BarBufLen(tf)))

\* A tick buffer and a bar buffer have both evicted.
C6_Witness ==
    \E s \in Symbols, tf \in TFSet :
        /\ Len(tickLog[s]) > TickBufLen
        /\ Len(barLog[tf][s]) > BarBufLen(tf)
        /\ BarBufLen(tf) >= 2

(***************************************************************************)
(* C7. Persistence failures do not affect in-memory state: whatever the    *)
(* store does while a message is processed, the tick ring buffer, the open *)
(* bars, the bar objects and the bar ring buffers end as if every write    *)
(* had succeeded, and the call returns to the client as it would have.     *)
(***************************************************************************)
C7_StoreFailureIsolated ==
    [][LET ok == ProcessMsg(State, lastMsg', NoFault)
       IN  /\ <<heap', current_bars', tick_buffer', bar_buffer'>> = MemOf(ok)
           /\ raised' = ok.raised]_vars

\* The part of C7 that the code keeps: a write that fails inside the try of
\* insert_tick / insert_bar is swallowed and changes nothing in memory.
StoreExecFailureIsolated ==
    [][lastFault'.tick /= "connect" /\ lastFault'.bar /= "connect" =>
          LET ok == ProcessMsg(State, lastMsg', NoFault)
          IN  /\ <<heap', current_bars', tick_buffer', bar_buffer'>> = MemOf(ok)
              /\ raised' = ok.raised]_vars

(***************************************************************************)
(* C8. Reconnect without termination: start() returns only after stop()    *)
(* was called, and once the client is in its except clause (a connect,     *)
(* a receive or the callback failed) it sleeps and then attempts to        *)
(* connect again, unless stop() is called meanwhile.                       *)
(***************************************************************************)
C8_Reconnects ==
    /\ [](pc = "returned" => stopCalled)
    /\ [][pc = "except" => pc' \in {"except", "backoff"}]_vars
    /\ (pc = "except") ~> (pc = "connecting" \/ stopCalled)

\* The client is connected again after a failure, stop() not called.
C8_Witness ==
    /\ everFailed
    /\ ~stopCalled
    /\ pc = "recv"
    /\ conn = "open"

(***************************************************************************)
(* C9. Cooperative stop terminates: once stop() has been called on a       *)
(* running client, start() does not hang: until it has returned, the       *)
(* client itself can always take its next step (observe the flag, leave    *)
(* the loop), whatever the connection delivers or does not deliver.        *)
(***************************************************************************)
C9_StopTerminates == stopCalled => (pc = "returned" \/ ENABLED ClientStep)

\* The same as a liveness property, for the client scheduled fairly and a
\* network that owes it nothing.
StopLeadsToReturn == stopCalled ~> (pc = "returned")

\* What the code does give: after stop() the client starts no new connection
\* attempt and no new callback once it has passed the loop tests, and it returns
\* as soon as the pending receive ends (a message or a failure).
StopOnlyWaitsInRecv == stopCalled /\ pc /= "returned" /\ ~ENABLED ClientStep => pc = "recv"

(***************************************************************************)
(* C10. Sequential in-order delivery with back-pressure: messages go to    *)
(* the callback in arrival order, at most one callback is in progress, and *)
(* the client is at a receive (or anywhere but the await of the callback)  *)
(* only when no callback is in progress, so callbacks finish in the order  *)
(* the messages arrived.                                                   *)
(***************************************************************************)
IsPrefix(a, b) == Len(a) <= Len(b) /\ a = SubSeq(b, 1, Len(a))
C10_SequentialDelivery ==
    /\ Cardinality(active) <= 1
    /\ active /= {} => pc = "callback"
    /\ \A i, j \in 1..Len(delivered) : i < j => delivered[i] < delivered[j]
    /\ IsPrefix(finished, delivered)
    /\ Len(delivered) = Len(finished) + Cardinality(active)

\* A message waits in the connection while the callback of the one before it
\* runs, after an earlier callback has finished.
C10_Witness ==
    /\ pc = "callback"
    /\ active /= {}
    /\ inbox /= <<>>
    /\ Len(finished) >= 1

(***************************************************************************)
(* C11. Single worker: at every moment at most one worker thread is alive, *)
(* and a start() call made while the worker is alive creates no thread, so *)
(* once a worker is alive the one Thread object start() created is the     *)
(* only one, however many threads call start() and however their calls     *)
(* interleave.                                                             *)
(***************************************************************************)
LiveWorkers == {t \in 1..Len(threads) : threads[t] = "alive"}
C11_SingleWorker ==
    /\ Cardinality(LiveWorkers) <= 1
    /\ LiveWorkers /= {} => Len(threads) = 1

\* The same for one construction only: two start() calls alone, on a manager
\* that was constructed once, give two workers.
SingleWorkerAfterOneInit ==
    (\A a \in Attrs : created[a] <= 1) => Cardinality(LiveWorkers) <= 1

(***************************************************************************)
(* C12. Initialised once per process: every StreamManager() call returns   *)
(* the same instance; the store handle, the Resampler, the ring buffers    *)
(* and the client are created once and never again, by a later or a        *)
(* concurrent construction; and a ring buffer that has received a tick     *)
(* is never emptied.                                                       *)
(***************************************************************************)
BufferedDataKept == \A s \in Symbols : tickLog[s] /= <<>> => tick_buffer[s] /= <<>>
C12_InitialisedOnce ==
    /\ instance <= 1
    /\ \A c \in Callers : cself[c] \in {0, instance}
    /\ \A a \in Attrs : created[a] <= 1
    /\ BufferedDataKept

\* A StreamManager() call raises nothing.
ConstructionNeverRaises == \A c \in Callers : cpc[c] /= "raised"

(***************************************************************************)
(* C13. get_bars_df source selection and cold start: a call returns the    *)
(* content of the ring buffer when that is not empty; otherwise it reads   *)
(* the store, and returns at most DbReadLimit rows, the newest of the      *)
(* symbol in that timeframe's table; the call leaves the ring buffers (and *)
(* everything else) as they were, so every call on an empty buffer reads   *)
(* the store again; with buffer and store empty the result is empty.       *)
(***************************************************************************)
\* rows are the limit newest rows of the symbol in table (all when fewer),
\* oldest first.
NewestOldestFirst(rows, table, symbol, limit) ==
    LET all == {r \in table : r.symbol = symbol}
        got == {rows[i] : i \in 1..Len(rows)}
    IN  /\ got \subseteq all
        /\ Cardinality(got) = Len(rows)
        /\ Len(rows) = Min2(limit, Cardinality(all))
        /\ \A r \in all \ got, x \in got : IsoLess(r.timestamp, x.timestamp)
        /\ \A i, j \in 1..Len(rows) : i < j => IsoLess(rows[i].timestamp, rows[j].timestamp)
\* The step is a call of get_bars_df.
IsGetBarsDf == <<areq, abars, asrc>>' /= <<areq, abars, asrc>> /\ areq'.op = "get_bars_df"
C13_SourceSelection ==
    [][IsGetBarsDf =>
          LET buf == bar_buffer[areq'.tf][areq'.symbol]
          IN  /\ buf /= <<>> =>
                     /\ asrc' = "buffer"
                     /\ Len(abars') = Len(buf)
                     /\ \A i \in 1..Len(buf) : abars'[i] = heap[buf[i]]
              /\ buf = <<>> =>
                     /\ asrc' = "store"
                     /\ Len(abars') <= DbReadLimit
                     /\ NewestOldestFirst(abars', db_bars[areq'.tf], areq'.symbol, DbReadLimit)
                     /\ db_bars[areq'.tf] = {} => abars' = <<>>
              /\ UNCHANGED <<bar_buffer, tick_buffer, heap, current_bars, db_ticks, db_bars>>]_vars

\* Cold start: the ring buffer is empty, the store holds more bars of the symbol
\* than the read returns, and the call returned the newest DbReadLimit of them.
C13_Witness ==
    /\ areq.op = "get_bars_df"
    /\ asrc = "store"
    /\ bar_buffer[areq.tf][areq.symbol] = <<>>
    /\ Len(abars) = DbReadLimit
    /\ Cardinality({r \in db_bars[areq.tf] : r.symbol = areq.symbol}) > DbReadLimit

\* The ring buffer was not empty and the call returned its content.
BarsFromBuffer ==
    /\ areq.op = "get_bars_df"
    /\ asrc = "buffer"
    /\ Len(abars) = 2

(***************************************************************************)
(* C14. get_bars_df is oldest-first: the rows a call returns are in        *)
(* ascending order of bar timestamp, from the ring buffer and from the     *)
(* store, after any sequence of processed ticks.                           *)
(***************************************************************************)
AscendingRows(rows) ==
    \A i, j \in 1..Len(rows) : i < j => ~IsoLess(rows[j].timestamp, rows[i].timestamp)
StrictlyAscendingRows(rows) ==
    \A i, j \in 1..Len(rows) : i < j => IsoLess(rows[i].timestamp, rows[j].timestamp)
InTimeOrder(log) ==
    \A i, j \in 1..Len(log) : i < j => ~IsoLess(log[j].timestamp, log[i].timestamp)
BarsFromStoreInTimeOrder ==
    /\ areq.op = "get_bars_df"
    /\ asrc = "store"
    /\ Len(abars) = 2
    /\ IsoLess(abars[1].timestamp, abars[2].timestamp)

(***************************************************************************)
(* C15. get_latest_price: a call for a configured symbol returns 0 while   *)
(* no tick of the symbol has been accepted, and otherwise the price of the *)
(* tick of the symbol accepted last, in arrival order, whatever its        *)
(* timestamp, whatever other symbols did and whatever the buffer evicted.  *)
(***************************************************************************)
IsGetLatestPrice == <<areq, aprice>>' /= <<areq, aprice>> /\ areq'.op = "get_latest_price"
C15_LatestPrice ==
    [][IsGetLatestPrice =>
          LET log == tickLog[areq'.symbol]
          IN  /\ log = <<>> => aprice' = 0
              /\ log /= <<>> => aprice' = log[Len(log)].price
              /\ UNCHANGED <<tick_buffer, tickLog>>]_vars

\* The buffer of the symbol has evicted, the tick accepted last is older and
\* differently priced than one before it, a tick of the other symbol came after
\* it, and the call returned its price.
C15_Witness ==
    /\ areq.op = "get_latest_price"
    /\ LET log == tickLog[areq.symbol]
           n   == Len(log)
       IN  /\ n > TickBufLen
           /\ IsoLess(log[n].timestamp, log[n - 1].timestamp)
           /\ log[n].price /= log[n - 1].price
           /\ aprice = log[n].price
    /\ ~LastTick.none
    /\ LastTick.symbol /= areq.symbol

\* No tick of the symbol was accepted, one of the other symbol was, and the
\* call returned 0.
LatestPriceZero ==
    /\ areq.op = "get_latest_price"
    /\ tickLog[areq.symbol] = <<>>
    /\ \E o \in Symbols : tickLog[o] /= <<>>
    /\ aprice = 0

(***************************************************************************)
(* C16. insertTick is insert-if-absent: after any sequence of insert_tick  *)
(* calls the ticks table holds exactly one row per distinct (symbol,       *)
(* timestamp) inserted and no other row, and that row has the price and    *)
(* size of the first insert of its key.                                    *)
(***************************************************************************)
\* The insert calls of the log that went to one table, in order.
InsertsInto(op, tf) == SelectSeq(dbLog, LAMBDA c : c.op = op /\ c.tf = tf)
SameKey(a, b) == a.symbol = b.symbol /\ a.timestamp = b.timestamp
C16_InsertTickIfAbsent ==
    LET log == InsertsInto("tick", "")
    IN  /\ \A i \in 1..Len(log) :
               LET first == CHOOSE j \in 1..i :
                                /\ SameKey(log[j].row, log[i].row)
                                /\ \A h \in 1..(j - 1) : ~SameKey(log[h].row, log[i].row)
               IN  /\ Cardinality({r \in db_ticks : SameKey(r, log[i].row)}) = 1
                   /\ log[first].row \in db_ticks
        /\ \A r \in db_ticks : \E i \in 1..Len(log) : SameKey(r, log[i].row)

\* A key was inserted twice with different prices, and another key after it.
C16_Witness ==
    LET log == InsertsInto("tick", "")
    IN  /\ Len(log) = 3
        /\ SameKey(log[1].row, log[2].row)
        /\ log[1].row.price /= log[2].row.price
        /\ Cardinality(db_ticks) = 2

(***************************************************************************)
(* C17. insertOrReplaceBar is an upsert: after any sequence of insert_bar  *)
(* calls each bars table holds exactly one row per distinct (symbol,       *)
(* timestamp) inserted into it and no other row, and every column of that  *)
(* row is as in the last insert of its key into that table; a call changes *)
(* no row of another key and no other table.                               *)
(***************************************************************************)
C17_InsertBarUpsert ==
    \A tf \in TFSet :
        LET log == InsertsInto("bar", tf)
        IN  /\ \A i \in 1..Len(log) :
                   LET last == CHOOSE j \in i..Len(log) :
                                   /\ SameKey(log[j].row, log[i].row)
                                   /\ \A h \in (j + 1)..Len(log) : ~SameKey(log[h].row, log[i].row)
                   IN  /\ Cardinality({r \in db_bars[tf] : SameKey(r, log[i].row)}) = 1
                       /\ log[last].row \in db_bars[tf]
            /\ \A r \in db_bars[tf] : \E i \in 1..Len(log) : SameKey(r, log[i].row)

\* A key was inserted twice with different closes into one table, with another
\* table holding a row of the same key.
C17_Witness ==
    LET log == InsertsInto("bar", "1s")
    IN  /\ Len(log) = 2
        /\ SameKey(log[1].row, log[2].row)
        /\ log[1].row.close /= log[2].row.close
        /\ Cardinality(db_bars["1s"]) = 1
        /\ Cardinality(db_bars["1m"]) = 1

(***************************************************************************)
(* C18. Store read order and limit: get_bars(timeframe, symbol, limit)     *)
(* returns the limit rows of the symbol with the greatest timestamps (all  *)
(* of them when there are fewer), oldest first; get_recent_ticks(symbol,   *)
(* limit) returns the same selection of the ticks table, newest first;     *)
(* neither returns a row of another symbol.                                *)
(***************************************************************************)
ReadTable == IF dreq.op = "get_bars" THEN db_bars[dreq.tf] ELSE db_ticks
\* The rows of the last read are the right ones for the tables as they are.
ReadIsRight ==
    LET all == {r \in ReadTable : r.symbol = dreq.symbol}
        got == {drows[i] : i \in 1..Len(drows)}
    IN  /\ got \subseteq all
        /\ Cardinality(got) = Len(drows)
        /\ Len(drows) = Min2(dreq.limit, Cardinality(all))
        /\ \A r \in all \ got, x \in got : IsoLess(r.timestamp, x.timestamp)
        /\ \A i, j \in 1..Len(drows) :
               i < j => IF dreq.op = "get_bars"
                        THEN IsoLess(drows[i].timestamp, drows[j].timestamp)
                        ELSE IsoLess(drows[j].timestamp, drows[i].timestamp)
\* Every read returns the right rows for the tables it read, and changes no table.
C18_ReadOrderAndLimit ==
    [][<<dreq, drows>>' /= <<dreq, drows>> =>
          ReadIsRight' /\ UNCHANGED <<db_ticks, db_bars>>]_vars

\* get_bars with limit 2 on a table holding three rows of the symbol, which
\* were inserted newest first.
C18_Witness ==
    /\ dreq.op = "get_bars"
    /\ dreq.limit = 2
    /\ Len(drows) = 2
    /\ Cardinality({r \in db_bars[dreq.tf] : r.symbol = dreq.symbol}) = 3
    /\ IsoLess(dbLog[2].row.timestamp, dbLog[1].row.timestamp)
    /\ IsoLess(dbLog[3].row.timestamp, dbLog[2].row.timestamp)

\* get_bars with limit 1 while the newest row of the table is of another symbol.
ReadSkipsOtherSymbol ==
    /\ dreq.op = "get_bars"
    /\ Len(drows) = 1
    /\ \E r \in db_bars[dreq.tf] :
           r.symbol /= dreq.symbol /\ IsoLess(drows[1].timestamp, r.timestamp)

\* get_recent_ticks with limit 2 returned the two newest of three ticks.
RecentTicksCutAtLimit ==
    /\ dreq.op = "get_recent_ticks"
    /\ Len(drows) = 2
    /\ Cardinality({r \in db_ticks : r.symbol = dreq.symbol}) = 3

(***************************************************************************)
(* C19. Normalizer rejection is total: every call of from_binance_msg      *)
(* returns a Tick or None and never raises; a Tick it returns has the      *)
(* lowercased symbol of the message and the timestamp of the message's     *)
(* trade time; and a message that is not a JSON object, or lacks symbol,   *)
(* price, quantity or trade time, or whose price or quantity is not        *)
(* numeric, gives None.                                                    *)
(***************************************************************************)
NumericField(f) == f.k \in {"number", "numstr"}
NormalizerRejectsMissingKey ==
    /\ nmsg.shape = "object"
    /\ nmsg.T = Num(1500)
    /\ nmsg.s = Absent
    /\ nout.out = "none"

(***************************************************************************)
(* C20. Tick value ranges: every Tick the normalizer returns has           *)
(* price > 0 and size >= 0, so a message with a zero or negative price or  *)
(* a negative quantity never produces a Tick.                              *)
(***************************************************************************)
C20_TickRanges ==
    nout.out = "tick" => (nout.tick.price > 0 /\ nout.tick.size >= 0)

(***************************************************************************)
(* C21. Rejected messages are dropped without effect: a _process_msg call  *)
(* on a message the normalizer rejects changes no ring buffer, no open     *)
(* bar, no bar object and no table and raises nothing; the await of that   *)
(* call ends at the test of the inner loop with the connection as it was   *)
(* and the except clause not entered; and from there the client, unless    *)
(* stopped, goes to receive on the same connection.                        *)
(***************************************************************************)
IsProcessMsg == nMsgs' /= nMsgs
C21_RejectedDropped ==
    [][/\ (IsProcessMsg /\ FromBinanceMsg(lastMsg').none) =>
              /\ UNCHANGED <<memVars, dbVars>>
              /\ ~raised'
              /\ ~cbRaised'
       /\ (pc = "callback" /\ pc' /= pc /\ FromBinanceMsg(lastMsg).none) =>
              /\ pc' = "inner"
              /\ UNCHANGED <<conn, inbox, everFailed>>
       /\ (pc = "inner" /\ pc' /= pc /\ running) =>
              /\ pc' = "recv"
              /\ UNCHANGED <<conn, inbox, everFailed>>]_vars

\* After a trade was buffered and stored, a trade without a price was rejected,
\* and the client is at its next receive on the connection it opened first.
C21_Witness ==
    /\ lastMsg = NoPriceMsg
    /\ ~raised
    /\ tick_buffer["btcusdt"] /= <<>>
    /\ db_ticks /= {}
    /\ Len(finished) >= 2
    /\ pc = "recv"
    /\ conn = "open"
    /\ ~everFailed

\* The same for a text that is not JSON.
GarbageDropped ==
    /\ lastMsg = GarbageMsg
    /\ nMsgs >= 2
    /\ ~raised
    /\ tick_buffer["btcusdt"] /= <<>>
    /\ pc = "recv"
    /\ ~everFailed

(***************************************************************************)
(* C22. Persistence does not block the in-memory path: while one message   *)
(* is processed, every update of a tick ring buffer, of the Resampler's    *)
(* open bars and bar objects and of a bar ring buffer takes place before   *)
(* any store write of that message; once a store write of the message has  *)
(* been called, no in-memory update of the message is still to come.       *)
(***************************************************************************)
\* insert_tick (line 72) has been called for the message in progress.
StoreWriteCalled == wpc \in {"tf", "update", "bars", "insert_bar"}
C22_MemoryBeforeStore == [][StoreWriteCalled => UNCHANGED memVars]_vars

\* What the code does give: the tick is in its ring buffer before insert_tick
\* is called, and every other in-memory update of the message comes after.
OnlyTickBufferBeforeStore ==
    [][wpc /= "idle" /\ ~StoreWriteCalled => UNCHANGED <<heap, current_bars, bar_buffer>>]_vars

(***************************************************************************)
(* C23. Per-message step order: for an accepted tick _process_msg appends  *)
(* the tick to its ring buffer, then persists it, then feeds the           *)
(* Resampler, then for each completed bar in emission order appends it to  *)
(* the ring buffer of its (timeframe, symbol) and then persists it into    *)
(* the table of that timeframe; so, with a store that works, after each    *)
(* fully processed message every bar in a bar ring buffer has a row with   *)
(* its (symbol, timestamp) in that timeframe's table.                      *)
(***************************************************************************)
Last(seq) == seq[Len(seq)]
\* The open bars of the symbol are those process_tick leaves for the tick.
ResampledFor(tick) ==
    \A tf \in TFSet :
        /\ current_bars[tf][tick.symbol] /= 0
        /\ heap[current_bars[tf][tick.symbol]].timestamp = AlignTime(tick.timestamp, tf)
        /\ Last(applied[current_bars[tf][tick.symbol]].ticks) = tick
\* Every buffered bar has a row of its key in the table of its timeframe.
BufferedBarsStored ==
    \A tf \in TFSet, s \in Symbols :
        \A i \in 1..Len(bar_buffer[tf][s]) :
            \E r \in db_bars[tf] : SameKey(r, heap[bar_buffer[tf][s][i]])
EmittedIds(tf, s) == {emitted[tf][s][j] : j \in 1..Len(emitted[tf][s])}
C25_InOrderOnce ==
    \A s \in Symbols :
        InTimeOrder(fed[s]) =>
            \A tf \in TFSet :
                LET em == emitted[tf][s]
                IN  /\ \A i, j \in 1..Len(em) :
                           i < j => IsoLess(heap[em[i]].timestamp, heap[em[j]].timestamp)
                    /\ Cardinality({heap[em[i]].timestamp : i \in 1..Len(em)}) = Len(em)
                    /\ \A i \in 1..Len(em) :
                           /\ current_bars[tf][s] /= 0
                           /\ heap[em[i]].timestamp /= heap[current_bars[tf][s]].timestamp
                           /\ {r \in db_bars[tf] : SameKey(r, heap[em[i]])} = {heap[em[i]]}

\* Three ticks of a symbol in time order, in two seconds of one minute and in
\* the next minute: two 1s bars and one 1m bar were emitted, while the other
\* symbol traded as well.
C25_Witness ==
    \E s \in Symbols :
        /\ InTimeOrder(fed[s])
        /\ Len(fed[s]) = 3
        /\ Len(emitted["1s"][s]) = 2
        /\ Len(emitted["1m"][s]) = 1
        /\ \E o \in Symbols \ {s} : fed[o] /= <<>>

(***************************************************************************)
(* C26. Volume conservation: after any sequence of ticks, in any order of  *)
(* timestamp, for every timeframe and symbol the volumes of the bars       *)
(* emitted so far plus the volume of the open bar add up to the sizes of   *)
(* the ticks of the symbol given to process_tick so far.                   *)
(***************************************************************************)
RECURSIVE SumVolumes(_)
SumVolumes(ids) ==
    IF ids = <<>> THEN 0 ELSE heap[Head(ids)].volume + SumVolumes(Tail(ids))
OpenVolume(tf, s) ==
    IF current_bars[tf][s] = 0 THEN 0 ELSE heap[current_bars[tf][s]].volume
C26_VolumeConservation ==
    \A tf \in TFSet, s \in Symbols :
        SumVolumes(emitted[tf][s]) + OpenVolume(tf, s) = SumSizes(fed[s])

\* Four ticks of a symbol out of time order: two bars were emitted in the 1s
\* timeframe, one of them made of two ticks, and none in the 5m timeframe.
C26_Witness ==
    \E s \in Symbols :
        /\ Len(fed[s]) = 4
        /\ ~InTimeOrder(fed[s])
        /\ Len(emitted["1s"][s]) = 2
        /\ \E i \in 1..2 : Len(applied[emitted["1s"][s][i]].ticks) = 2
        /\ emitted["5m"][s] = <<>>
        /\ OpenVolume("5m", s) = SumSizes(fed[s])

(***************************************************************************)
(* C27. Timeframe nesting of completions: in the list one process_tick     *)
(* call returns, for ticks in any order, a 5m bar comes with a 1m bar and  *)
(* a 1m bar comes with a 1s bar; and for every symbol the three slots are  *)
(* open together, the open 1m and 5m bars having the boundaries got by     *)
(* flooring the open 1s bar's boundary to 60 and 300 seconds.              *)
(***************************************************************************)
Emits(tf) == \E i \in 1..Len(completed) : completed[i][1] = tf
FloorTo(sec, n) == sec - (sec % n)
C27_NestedCompletions ==
    /\ Emits("5m") => Emits("1m")
    /\ Emits("1m") => Emits("1s")
    /\ \A s \in Symbols :
           IF current_bars["1s"][s] = 0
           THEN current_bars["1m"][s] = 0 /\ current_bars["5m"][s] = 0
           ELSE LET b == heap[current_bars["1s"][s]].timestamp
                IN  /\ b.micro = 0
                    /\ current_bars["1m"][s] /= 0
                    /\ current_bars["5m"][s] /= 0
                    /\ heap[current_bars["1m"][s]].timestamp = [sec |-> FloorTo(b.sec, 60), micro |-> 0]
                    /\ heap[current_bars["5m"][s]].timestamp = [sec |-> FloorTo(b.sec, 300), micro |-> 0]

\* A tick older than the one before it closed the bars of all three timeframes,
\* and the open bars are those of its second, its minute and its five minutes.
C27_Witness ==
    /\ LastFed
    /\ Len(completed) = 3
    /\ LET log == fed[LastTick.symbol]
       IN  /\ Len(log) >= 2
           /\ IsoLess(log[Len(log)].timestamp, log[Len(log) - 1].timestamp)
           /\ heap[current_bars["1m"][LastTick.symbol]].timestamp.sec = 60

\* A tick closed the 1s and the 1m bar and not the 5m bar.
MinuteClosedAlone ==
    /\ LastFed
    /\ Emits("1s")
    /\ Emits("1m")
    /\ ~Emits("5m")

(***************************************************************************)
(* C28. Callback exceptions are handled as connection failures: a trade of *)
(* a symbol that is not configured makes _process_msg raise before any     *)
(* ring buffer, open bar, bar object or table has changed; when the        *)
(* callback has raised, the await ends in the except clause with the       *)
(* connection closed; from the except clause the client sleeps and then,   *)
(* unless stopped, connects again; and start() returns only after stop()   *)
(* was called, so no exception of the callback ends the run loop.          *)
(***************************************************************************)
UnknownSymbol(msg) == ~FromBinanceMsg(msg).none /\ FromBinanceMsg(msg).symbol \notin Symbols
C28_CallbackFailureReconnects ==
    /\ [][/\ (IsProcessMsg /\ UnknownSymbol(lastMsg')) =>
                 /\ raised'
                 /\ cbRaised'
                 /\ UNCHANGED <<memVars, dbVars>>
          /\ (pc = "callback" /\ pc' /= pc /\ cbRaised) =>
                 /\ pc' = "except"
                 /\ conn' = "none"
                 /\ inbox' = <<>>
          /\ (pc = "except" /\ pc' /= pc) => pc' = "backoff"
          /\ (pc = "backoff" /\ pc' /= pc) => pc' = "outer"
          /\ (pc = "outer" /\ pc' /= pc /\ running) => pc' = "connecting"]_vars
    /\ [](pc = "returned" => stopCalled)
    /\ (pc = "callback" /\ active = {} /\ cbRaised) ~> (pc = "connecting" \/ stopCalled)

\* After a trade was buffered, a trade of an unknown symbol made the callback
\* raise, and the client, not stopped, is receiving on a new connection.
C28_Witness ==
    /\ lastMsg = UnknownMsg
    /\ raised
    /\ cbRaised
    /\ everFailed
    /\ tick_buffer["btcusdt"] /= <<>>
    /\ ~stopCalled
    /\ pc = "recv"
    /\ conn = "open"

====
